---------------------------- MODULE Spec2Model ----------------------------
(***************************************************************************)
(* Model of bball-api: the sync pipeline (netlify/functions/sync.js and    *)
(* its two sibling variants) against the upstream API and the secondary    *)
(* store, and the read handler that shares the container with it.          *)
(*                                                                         *)
(* Strings the code inspects character by character (query parameters,     *)
(* competition codes) are sequences of one-character strings.              *)
(***************************************************************************)
EXTENDS Integers, Sequences, FiniteSets, TLC

(***************************************************************************)
(* Bounds of the model.                                                    *)
(***************************************************************************)
\* length of the longest fan-out game list the upstream serves
MaxGames == 7
\* players per side in an upstream boxscore (plus one coach, one code-less entry)
RosterSize == 8
\* games beyond one full store batch in the long game list
BigExtra == 1

(***************************************************************************)
(* Program constants.                                                      *)
(***************************************************************************)
\* sync.js:37  const batchSize = 50
batchSize == 50
\* sync.js:276 const concurrency = 5
concurrency == 5
\* part_004:459 boxscoreStats.errors.slice(0, 5)
errorCap == 5

(***************************************************************************)
(* Small helpers on sequences.                                             *)
(***************************************************************************)
Min(a, b) == IF a < b THEN a ELSE b

\* Array.prototype.slice(from, to) with 0-based, end-exclusive indices
Slice(s, from, to) == SubSeq(s, from + 1, Min(to, Len(s)))

RECURSIVE Flatten(_)
Flatten(ss) == IF ss = <<>> THEN <<>> ELSE Head(ss) \o Flatten(Tail(ss))

Range(s) == { s[i] : i \in DOMAIN s }

(***************************************************************************)
(* Query-string pieces: String.prototype.split, trim, toUpperCase and the  *)
(* global parseInt, on sequences of characters.                            *)
(***************************************************************************)
Absent == <<"\\absent">>

\* a query parameter is falsy when it is missing or the empty string
Truthy(p) == p /= Absent /\ p /= <<>>

UpperChar(c) ==
  CASE c = "e" -> "E" [] c = "j" -> "J" [] c = "u" -> "U" [] OTHER -> c

toUpperCase(s) == [i \in DOMAIN s |-> UpperChar(s[i])]

\* s.split(",")
RECURSIVE SplitFrom(_, _, _)
SplitFrom(s, i, cur) ==
  IF i > Len(s) THEN <<cur>>
  ELSE IF s[i] = "," THEN <<cur>> \o SplitFrom(s, i + 1, <<>>)
  ELSE SplitFrom(s, i + 1, Append(cur, s[i]))

Split(s) == SplitFrom(s, 1, <<>>)

IsSpace(c) == c \in {" ", "\t"}

RECURSIVE TrimLeft(_)
TrimLeft(s) ==
  IF s /= <<>> /\ IsSpace(Head(s)) THEN TrimLeft(Tail(s)) ELSE s

RECURSIVE TrimRight(_)
TrimRight(s) ==
  IF s /= <<>> /\ IsSpace(s[Len(s)]) THEN TrimRight(SubSeq(s, 1, Len(s) - 1)) ELSE s

\* g.trim()
Trim(s) == TrimRight(TrimLeft(s))

IsDigit(c) == c \in {"0", "1", "2", "3", "4", "5", "6", "7", "8", "9"}

DigitVal(c) ==
  CASE c = "0" -> 0 [] c = "1" -> 1 [] c = "2" -> 2 [] c = "3" -> 3
    [] c = "4" -> 4 [] c = "5" -> 5 [] c = "6" -> 6 [] c = "7" -> 7
    [] c = "8" -> 8 [] c = "9" -> 9

\* the value of the longest prefix of decimal digits, acc being the value so far
RECURSIVE DigitsPrefix(_, _)
DigitsPrefix(s, acc) ==
  IF s /= <<>> /\ IsDigit(Head(s))
  THEN DigitsPrefix(Tail(s), 10 * acc + DigitVal(Head(s)))
  ELSE acc

NaN == [nan |-> TRUE, val |-> 0]
Num(n) == [nan |-> FALSE, val |-> n]

\* parseInt(s) without radix: leading white space skipped, optional sign, then
\* the longest run of decimal digits; NaN when there is none.  (A "0x" prefix
\* switches to hexadecimal; the model's inputs hold no such token.)
parseInt(s) ==
  LET t    == TrimLeft(s)
      neg  == t /= <<>> /\ Head(t) = "-"
      body == IF t /= <<>> /\ Head(t) \in {"-", "+"} THEN Tail(t) ELSE t
  IN IF body = <<>> \/ ~IsDigit(Head(body)) THEN NaN
     ELSE Num(IF neg THEN 0 - DigitsPrefix(body, 0) ELSE DigitsPrefix(body, 0))

\* variant of FilterSet that parses the parameter without splitting it
FilterSetNoSplit(gamesFilter) == { parseInt(Trim(gamesFilter)) }

\* new Set(gamesFilter.split(",").map(g => parseInt(g.trim())))
FilterSet(gamesFilter) ==
  LET toks == Split(gamesFilter)
  IN { parseInt(Trim(toks[i])) : i \in DOMAIN toks }

\* filterSet.has(g.gameCode), gameCode being a number
SetHas(set, n) == \E e \in set : ~e.nan /\ e.val = n

(***************************************************************************)
(* JavaScript values of the boxscore fields: undefined (null is treated    *)
(* the same by ?? and ||), a number, NaN, or a string of characters.       *)
(* Counts are plain integers.  Playing times are fractions of a minute: a  *)
(* time number n stands for n / PerMinute minutes, so 25.5 is              *)
(* 25 * PerMinute + PerMinute \div 2.                                      *)
(***************************************************************************)
PerMinute == 60 * 1000

undefined == [t |-> "undef"]
JsNum(n) == [t |-> "num", n |-> n]
JsNaN == [t |-> "nan"]
JsStr(str) == [t |-> "str", s |-> str]

\* a ?? b
Coalesce(a, b) == IF a.t = "undef" THEN b ELSE a

\* ToBoolean: undefined, 0, NaN and "" are falsy
JsTruthy(a) == (a.t = "num" /\ a.n /= 0) \/ (a.t = "str" /\ a.s /= <<>>)

\* a || b
JsOr(a, b) == IF JsTruthy(a) THEN a ELSE b

\* a + b for operands that are numbers, NaN or undefined (undefined
\* converts to NaN); no string is ever added in the transforms' inputs
JsAdd(a, b) == IF a.t = "num" /\ b.t = "num" THEN JsNum(a.n + b.n) ELSE JsNaN

RECURSIVE DigitsLen(_)
DigitsLen(str) ==
  IF str /= <<>> /\ IsDigit(Head(str)) THEN 1 + DigitsLen(Tail(str)) ELSE 0

Pow10(k) == CASE k = 0 -> 1 [] k = 1 -> 10 [] k = 2 -> 100 [] OTHER -> 1000

\* the fraction ".ddd" that follows the integer digits, in time units;
\* digits after the third are dropped
FractionOf(rest) ==
  IF rest /= <<>> /\ Head(rest) = "."
  THEN LET fl == Min(DigitsLen(Tail(rest)), 3)
       IN (DigitsPrefix(SubSeq(rest, 2, fl + 1), 0) * PerMinute) \div Pow10(fl)
  ELSE 0

\* parseFloat(str) for unsigned decimal text: leading white space skipped,
\* the longest prefix "digits[.digits]" read, NaN when there is no digit
parseFloat(str) ==
  LET t  == TrimLeft(str)
      il == DigitsLen(t)
  IN IF il = 0 THEN JsNaN
     ELSE JsNum(DigitsPrefix(t, 0) * PerMinute + FractionOf(SubSeq(t, il + 1, Len(t))))

\* ToNumber(str), the conversion behind Math.floor(str), str - n and str > 0:
\* "" is 0, text that is a number as a whole is that number, the rest NaN
ToNumber(str) ==
  LET t    == Trim(str)
      il   == DigitsLen(t)
      rest == SubSeq(t, il + 1, Len(t))
      used == il + (IF rest /= <<>> /\ Head(rest) = "."
                    THEN 1 + DigitsLen(Tail(rest)) ELSE 0)
  IN IF t = <<>> THEN JsNum(0)
     ELSE IF il > 0 /\ used = Len(t) THEN parseFloat(t)
     ELSE JsNaN

\* minStr.split(":")
RECURSIVE SplitColonFrom(_, _, _)
SplitColonFrom(str, i, cur) ==
  IF i > Len(str) THEN <<cur>>
  ELSE IF str[i] = ":" THEN <<cur>> \o SplitColonFrom(str, i + 1, <<>>)
  ELSE SplitColonFrom(str, i + 1, Append(cur, str[i]))

DigitChar(d) ==
  CASE d = 0 -> "0" [] d = 1 -> "1" [] d = 2 -> "2" [] d = 3 -> "3"
    [] d = 4 -> "4" [] d = 5 -> "5" [] d = 6 -> "6" [] d = 7 -> "7"
    [] d = 8 -> "8" [] d = 9 -> "9"

\* String(n) of a non-negative integer
RECURSIVE NumberToString(_)
NumberToString(n) ==
  IF n < 10 THEN <<DigitChar(n)>>
  ELSE Append(NumberToString(n \div 10), DigitChar(n % 10))

(***************************************************************************)
(* The request.  params is what getParams returns; a missing parameter is  *)
(* Absent.                                                                 *)
(***************************************************************************)
\* rounds.js: const CACHE_TTL = 300
CACHE_TTL == 300
\* boxscore.js: const CACHE_TTL = 60
CACHE_TTL_boxscore == 60

\* buildSeasonCode(code = "E", season = "2025") of the older utilities, which
\* takes no override
buildSeasonCodeOfTwo(code, season) == toUpperCase(code) \o season

\* variant of buildSeasonCode that does as the older one whatever the override
buildSeasonCodeIgnoringOverride(code, season, seasonCodeOverride) ==
  buildSeasonCodeOfTwo(code, season)

\* getSeasonCode / buildSeasonCode (utils.js): the override when truthy, else
\* uppercase(code) + season, with the defaults "E" and "2025"
buildSeasonCode(code, season, seasonCodeOverride) ==
  IF Truthy(seasonCodeOverride) THEN seasonCodeOverride
  ELSE toUpperCase(code) \o season

getSeasonCode(p) ==
  buildSeasonCode(IF p.code = Absent THEN <<"E">> ELSE p.code,
                  IF p.season = Absent THEN <<"2", "0", "2", "5">> ELSE p.season,
                  IF Truthy(p.seasonCode) THEN p.seasonCode ELSE Absent)

\* const { code = "E" } = params;  code.toUpperCase()
Competition(p) == toUpperCase(IF p.code = Absent THEN <<"E">> ELSE p.code)

\* variant of doBoxscores that skips whenever the parameter is supplied
doBoxscoresUnlessSupplied(p) == ~Truthy(p.skipBoxscores)

\* skipBoxscores !== "true" && skipBoxscores !== "1"
doBoxscores(p) ==
  p.skipBoxscores /= <<"t", "r", "u", "e">> /\ p.skipBoxscores /= <<"1">>

(***************************************************************************)
(* The upstream API.  A game carries the fields the pipeline reads; a      *)
(* status of "" is a missing gameStatus.                                   *)
(***************************************************************************)
Game(code, played, status) ==
  [gameCode |-> code, played |-> played, gameStatus |-> status]

\* the statuses cycle so that every combination the eligibility tests tell
\* apart occurs in the long list
GameAt(i) ==
  CASE i % 6 = 1 -> Game(i, TRUE, "Played")
    [] i % 6 = 2 -> Game(i, FALSE, "Played")
    [] i % 6 = 3 -> Game(i, FALSE, "Live")
    [] i % 6 = 4 -> Game(i, FALSE, "Playing")
    [] i % 6 = 5 -> Game(i, TRUE, "")
    [] OTHER     -> Game(i, FALSE, "Scheduled")

ShortList == <<Game(1, TRUE, "Played"), Game(2, FALSE, "Scheduled"), Game(3, FALSE, "Live")>>
LongList == [i \in 1..MaxGames |-> GameAt(i)]
\* more than one store batch of games, two of them played
BigList ==
  [i \in 1..(batchSize + BigExtra) |->
     IF i <= 2 THEN Game(i, TRUE, "Played") ELSE Game(i, FALSE, "Scheduled")]

\* What GET .../games answers: a failure (non-2xx, euroFetch throws), JSON
\* null, an object without a list, a bare list, or {data: list}.
GamesReply(kind, list) == [kind |-> kind, list |-> list]

GamesReplies ==
  { GamesReply("fail", <<>>), GamesReply("null", <<>>), GamesReply("object", <<>>),
    GamesReply("array", <<>>), GamesReply("array", ShortList),
    GamesReply("data", ShortList), GamesReply("array", LongList),
    GamesReply("array", BigList) }

\* One entry of a side's players list.  code = 0 is a missing person code,
\* type "" a missing type tag.
Entry(code, type) == [code |-> code, type |-> type]

\* The statistics of an entry, every field undefined.
NoStats ==
  [minutes |-> undefined, timePlayed |-> undefined,
   fieldGoalsMade2 |-> undefined, fieldGoalsAttempted2 |-> undefined,
   fieldGoalsMade3 |-> undefined, fieldGoalsAttempted3 |-> undefined,
   fieldGoalsMade |-> undefined, fieldGoalsAttempted |-> undefined,
   twoPointsMade |-> undefined, twoPointsAttempted |-> undefined,
   threePointsMade |-> undefined, threePointsAttempted |-> undefined,
   offensiveRebounds |-> undefined, defensiveRebounds |-> undefined,
   totalRebounds |-> undefined]

\* The shapes of statistics the upstream may send, one per k: the playing
\* time as "MM:SS" text or as decimal minutes, under either field name; the
\* 2pt/3pt split present, partly present or replaced by other field names;
\* the rebound total given or not.
StatsShape(k) ==
  CASE k % 8 = 1 ->
         [NoStats EXCEPT !.minutes = JsStr(<<"2", "5", ":", "3", "0">>),
            !.fieldGoalsMade2 = JsNum(3), !.fieldGoalsAttempted2 = JsNum(5),
            !.fieldGoalsMade3 = JsNum(2), !.fieldGoalsAttempted3 = JsNum(4),
            !.offensiveRebounds = JsNum(3), !.defensiveRebounds = JsNum(5)]
    [] k % 8 = 2 ->
         [NoStats EXCEPT !.timePlayed = JsNum(25 * PerMinute + PerMinute \div 2),
            !.twoPointsMade = JsNum(4), !.twoPointsAttempted = JsNum(6),
            !.threePointsMade = JsNum(1), !.threePointsAttempted = JsNum(3),
            !.fieldGoalsMade = JsNum(5), !.fieldGoalsAttempted = JsNum(9),
            !.offensiveRebounds = JsNum(3), !.defensiveRebounds = JsNum(5),
            !.totalRebounds = JsNum(9)]
    [] k % 8 = 3 -> NoStats
    [] k % 8 = 4 ->
         [NoStats EXCEPT !.timePlayed = JsNum(25 * PerMinute + 59700),
            !.fieldGoalsMade2 = JsNum(3), !.fieldGoalsAttempted2 = JsNum(5),
            !.defensiveRebounds = JsNum(5)]
    [] k % 8 = 5 ->
         [NoStats EXCEPT !.timePlayed = JsStr(<<"2", "5", ":", "3", "0">>),
            !.fieldGoalsMade2 = JsNum(0), !.fieldGoalsAttempted2 = JsNum(0),
            !.fieldGoalsMade3 = JsNum(0), !.fieldGoalsAttempted3 = JsNum(0),
            !.offensiveRebounds = JsNum(3), !.defensiveRebounds = JsNum(5),
            !.totalRebounds = JsNum(0)]
    [] k % 8 = 6 ->
         [NoStats EXCEPT !.minutes = JsStr(<<"D", "N", "P">>),
            !.offensiveRebounds = JsNum(2)]
    [] k % 8 = 7 ->
         [NoStats EXCEPT !.minutes = JsStr(<<"2", "5", ".", "5">>),
            !.timePlayed = JsStr(<<"2", "5", ".", "5">>)]
    [] OTHER ->
         [NoStats EXCEPT !.minutes = JsStr(<<"7", ":", "0", "5">>),
            !.timePlayed = JsNum(12 * PerMinute + 30600)]

Roster(base) ==
  [k \in 1..RosterSize |->
     Entry(base + k, IF k % 2 = 0 THEN "J" ELSE "") @@ StatsShape(k)]
    \o <<Entry(base + RosterSize + 1, "C") @@ StatsShape(1),
         Entry(0, "J") @@ StatsShape(2)>>

\* What GET .../games/{n}/boxscore (or /stats) answers when it succeeds.  A
\* live game has no players list yet.
Boxscore(gameCode) ==
  IF gameCode % 6 = 3
  THEN [local |-> [hasPlayers |-> FALSE, players |-> <<>>],
        road  |-> [hasPlayers |-> FALSE, players |-> <<>>]]
  ELSE [local |-> [hasPlayers |-> TRUE, players |-> Roster(100)],
        road  |-> [hasPlayers |-> TRUE, players |-> Roster(200)]]

(***************************************************************************)
(* State.                                                                  *)
(***************************************************************************)
VARIABLES
  variant,      \* which handler of the endpoint is deployed.  sync: "boxscore"
                \* (sync.js), "stats" (on_conflict, /stats) or "gamesOnly";
                \* a read endpoint: "season", "composite" or "override"
  endpoint,     \* the handler the request is routed to: "sync" or a read endpoint
  method,       \* req.method
  keyPresent,   \* process.env.SUPABASE_SERVICE_KEY is set
  params,       \* getParams(req)
  upstream,     \* what the upstream answers for the game list
  pkIsKey,      \* the store's tables have the conflict columns as primary key
  run,          \* number of the invocation, also the clock behind synced_at
  st,           \* the locals of the running handler and its requests
  peer,         \* the locals of a second request the container serves meanwhile
  store,        \* the secondary store: the rows of its two tables
  firstRun,     \* the store as the first invocation left it
  cache,        \* utils.js _cache: key -> entry, shared by the container's handlers
  now,          \* Date.now(), in milliseconds
  probe         \* the direct calls of cache.set / cache.get made so far

vars ==
  <<variant, endpoint, method, keyPresent, params, upstream, pkIsKey, run, st,
    peer, store, firstRun, cache, now, probe>>

inputs == <<variant, endpoint, method, keyPresent, params, upstream, pkIsKey>>

(***************************************************************************)
(* Transforms.                                                             *)
(***************************************************************************)
\* transformGame: the columns of a live_games row that the pipeline and the
\* store's conflict key depend on
transformGame(game, seasonCode, competition, at) ==
  [game_code   |-> game.gameCode,
   season_code |-> seasonCode,
   competition |-> competition,
   game_status |-> IF game.gameStatus /= "" THEN game.gameStatus
                   ELSE IF game.played THEN "Played" ELSE "Scheduled",
   played      |-> game.played,
   synced_at   |-> at]

\* parseFloat(parts[1]) / 60
DividedBy60(a) == IF a.t = "num" THEN JsNum(a.n \div 60) ELSE JsNaN

\* parseMinutes (sync.js)
parseMinutes(minStr) ==
  IF ~JsTruthy(minStr) \/ minStr.t /= "str" THEN JsNum(0)
  ELSE LET parts == SplitColonFrom(minStr.s, 1, <<>>)
       IN IF Len(parts) = 2
          THEN JsAdd(parseFloat(parts[1]), DividedBy60(parseFloat(parts[2])))
          ELSE JsOr(parseFloat(minStr.s), JsNum(0))

\* variant of totalRebounds that always adds the two parts
totalReboundsSummed(e) ==
  JsAdd(Coalesce(e.offensiveRebounds, JsNum(0)), Coalesce(e.defensiveRebounds, JsNum(0)))

\* totalRebounds ?? (offensiveRebounds ?? 0) + (defensiveRebounds ?? 0)
totalRebounds(e) ==
  Coalesce(e.totalRebounds,
           JsAdd(Coalesce(e.offensiveRebounds, JsNum(0)),
                 Coalesce(e.defensiveRebounds, JsNum(0))))

\* transformPlayerStats (sync.js): the identity columns of a player_stats
\* row, its playing time, field goals and rebounds.  In a + b ?? c ?? 0 the
\* sum is formed first.  JSON.stringify writes a NaN column as null.
transformPlayerStats(entry, gameInfo, isLocal, at) ==
  [game_code   |-> gameInfo.gameCode,
   season_code |-> gameInfo.seasonCode,
   competition |-> gameInfo.competition,
   person_code |-> entry.code,
   is_local    |-> isLocal,
   minutes         |-> JsOr(JsOr(entry.minutes, entry.timePlayed), undefined),
   minutes_decimal |-> parseMinutes(JsOr(entry.minutes, entry.timePlayed)),
   field_goals_made |->
     Coalesce(Coalesce(JsAdd(entry.fieldGoalsMade2, entry.fieldGoalsMade3),
                       entry.fieldGoalsMade), JsNum(0)),
   field_goals_attempted |->
     Coalesce(Coalesce(JsAdd(entry.fieldGoalsAttempted2, entry.fieldGoalsAttempted3),
                       entry.fieldGoalsAttempted), JsNum(0)),
   two_points_made |->
     Coalesce(Coalesce(entry.fieldGoalsMade2, entry.twoPointsMade), JsNum(0)),
   two_points_attempted |->
     Coalesce(Coalesce(entry.fieldGoalsAttempted2, entry.twoPointsAttempted), JsNum(0)),
   three_points_made |->
     Coalesce(Coalesce(entry.fieldGoalsMade3, entry.threePointsMade), JsNum(0)),
   three_points_attempted |->
     Coalesce(Coalesce(entry.fieldGoalsAttempted3, entry.threePointsAttempted), JsNum(0)),
   offensive_rebounds |-> Coalesce(entry.offensiveRebounds, JsNum(0)),
   defensive_rebounds |-> Coalesce(entry.defensiveRebounds, JsNum(0)),
   total_rebounds     |-> totalRebounds(entry),
   raw_data    |-> entry,
   synced_at   |-> at]

\* mins + ":" + (secs < 10 ? "0" : "") + secs, or "DNP"
minutesStr(timePlayed) ==
  LET tn   == IF timePlayed.t = "str" THEN ToNumber(timePlayed.s) ELSE timePlayed
      mins == tn.n \div PerMinute
      secs == ((tn.n % PerMinute) * 60 + PerMinute \div 2) \div PerMinute
  IN IF tn.t = "num" /\ tn.n > 0
     THEN JsStr(NumberToString(mins) \o <<":">>
                  \o (IF secs < 10 THEN <<"0">> ELSE <<>>) \o NumberToString(secs))
     ELSE JsStr(<<"D", "N", "P">>)

\* transformPlayerStats of the stats variant (part_004): the same columns
transformPlayerStats_stats(entry, gameInfo, isLocal, at) ==
  LET fgm2 == Coalesce(entry.fieldGoalsMade2, JsNum(0))
      fga2 == Coalesce(entry.fieldGoalsAttempted2, JsNum(0))
      fgm3 == Coalesce(entry.fieldGoalsMade3, JsNum(0))
      fga3 == Coalesce(entry.fieldGoalsAttempted3, JsNum(0))
      timePlayed == Coalesce(entry.timePlayed, JsNum(0))
  IN [game_code   |-> gameInfo.gameCode,
      season_code |-> gameInfo.seasonCode,
      competition |-> gameInfo.competition,
      person_code |-> entry.code,
      is_local    |-> isLocal,
      minutes         |-> minutesStr(timePlayed),
      minutes_decimal |-> timePlayed,
      field_goals_made       |-> JsAdd(fgm2, fgm3),
      field_goals_attempted  |-> JsAdd(fga2, fga3),
      two_points_made        |-> fgm2,
      two_points_attempted   |-> fga2,
      three_points_made      |-> fgm3,
      three_points_attempted |-> fga3,
      offensive_rebounds |-> Coalesce(entry.offensiveRebounds, JsNum(0)),
      defensive_rebounds |-> Coalesce(entry.defensiveRebounds, JsNum(0)),
      total_rebounds     |-> totalRebounds(entry),
      raw_data    |-> entry,
      synced_at   |-> at]

\* sync.js extractPlayers keeps every entry with a truthy personCode/code
KeepBoxscoreEntry(entry) == entry.code /= 0

\* the stats variant also drops entries whose type is set and is not "J"
KeepStatsEntry(entry) ==
  entry.code /= 0 /\ ~(entry.type /= "" /\ entry.type /= "J")

KeepEntry(v, entry) ==
  IF v = "stats" THEN KeepStatsEntry(entry) ELSE KeepBoxscoreEntry(entry)

SideRows(v, side, gameInfo, isLocal, at) ==
  IF ~side.hasPlayers THEN <<>>
  ELSE LET kept == SelectSeq(side.players, LAMBDA e : KeepEntry(v, e))
       IN [k \in DOMAIN kept |->
             IF v = "stats"
             THEN transformPlayerStats_stats(kept[k], gameInfo, isLocal, at)
             ELSE transformPlayerStats(kept[k], gameInfo, isLocal, at)]

\* extractPlayers: local side first, then road
extractPlayers(v, boxscore, gameCode, seasonCode, competition, at) ==
  LET gameInfo == [gameCode |-> gameCode, seasonCode |-> seasonCode,
                   competition |-> competition]
  IN SideRows(v, boxscore.local, gameInfo, TRUE, at)
       \o SideRows(v, boxscore.road, gameInfo, FALSE, at)

(***************************************************************************)
(* The secondary store (PostgREST).  Each table has a unique constraint on *)
(* its key columns.  A POST with Prefer: resolution=merge-duplicates and    *)
(* on_conflict=<key> overwrites the rows with a matching key and inserts    *)
(* the others.  Without on_conflict the merge is on the primary key only:   *)
(* when the key columns are the primary key (pkIsKey) the outcome is the    *)
(* same, otherwise a row whose key columns are already present violates     *)
(* the constraint and the whole batch is refused with 409.  The schema is   *)
(* not part of the repository, so both are possible.                        *)
(***************************************************************************)
KeyOf(table, row) ==
  IF table = "live_games" THEN <<row.season_code, row.game_code>>
  ELSE <<row.season_code, row.game_code, row.person_code>>

Keys(table, rows) == { KeyOf(table, r) : r \in rows }

\* the on_conflict query parameter each variant sends
OnConflict(v, table) == v = "stats"

StoreAccepts(table, have, batch, onConflict, pk) ==
  onConflict \/ pk \/ Keys(table, Range(batch)) \cap Keys(table, have) = {}

StoreMerge(table, have, batch) ==
  { r \in have : KeyOf(table, r) \notin Keys(table, Range(batch)) } \cup Range(batch)

(***************************************************************************)
(* Responses.  success is TRUE when the body carries success:true; error   *)
(* is the message of an {error, timestamp} body, "" when there is none.    *)
(* An errors field that is undefined in the body is the empty list here:   *)
(* the code only ever emits a non-empty list or undefined.                 *)
(***************************************************************************)
NoBoxscores ==
  [present |-> FALSE, skipped |-> FALSE, eligible |-> 0, fetched |-> 0,
   playersUpserted |-> 0, errors |-> <<>>]

\* the payload of a read endpoint: what was fetched, and when; seasonStats is
\* "absent", "data" or "null" in the payload of the player handler, and
\* whether the payload has _warnings
NoData ==
  [path |-> <<>>, cachedAt |-> 0 - 1, seasonStats |-> "absent", warnings |-> FALSE]

NoResponse ==
  [status |-> 0, success |-> FALSE, error |-> "", found |-> 0, upserted |-> 0,
   gameErrors |-> <<>>, boxscores |-> NoBoxscores, xcache |-> "", data |-> NoData,
   timestamp |-> FALSE, cache |-> [entries |-> 0, keys |-> {}]]

\* errorResponse(message, status): the body { error, timestamp }
errorResponse(message, status) ==
  [NoResponse EXCEPT !.status = status, !.error = message, !.timestamp = TRUE]

\* handleCors: an empty 204
corsResponse == [NoResponse EXCEPT !.status = 204]

\* One entry of an error list: "Game <n>: <text>" or "<table> batch <n>: <status> - <text>"
GameError(gameCode) ==
  [kind |-> "game", table |-> "", n |-> gameCode, status |-> 0,
   text |-> "EuroLeague API returned 500"]

BatchError(v, table, i, status) ==
  [kind |-> "batch", table |-> IF v = "gamesOnly" THEN "" ELSE table,
   n |-> (i \div batchSize) + 1, status |-> status,
   text |-> IF status = 409 THEN "duplicate key value violates unique constraint"
            ELSE "store error"]

(***************************************************************************)
(* The sync handler.  st.pc is the await the handler is suspended at:      *)
(*   "idle"  the request has arrived         "games"  the game-list fetch  *)
(*   "store" one store batch                 "fanout" Promise.allSettled   *)
(*   "done"  the response has been returned                                *)
(* st.issued lists the games whose boxscore was requested, st.sent the     *)
(* store requests, both in the order the handler issued them, st.inflight  *)
(* holds the games whose boxscore request has not settled yet, and         *)
(* st.gameFetches counts the game-list requests.  What the environment did *)
(* to them is recorded beside: st.failed holds the games whose boxscore    *)
(* fetch failed, st.storeFails the store batches answered with a failure   *)
(* status, st.rejected tells that a store request got no answer at all and *)
(* st.faulty that the store itself failed (a 5xx or no answer),            *)
(* st.reordered that a boxscore request settled before one issued earlier  *)
(* in its batch.                                                           *)
(***************************************************************************)
InitSt ==
  [pc |-> "idle", gamesList |-> <<>>,
   up |-> [table |-> "", i |-> 0, total |-> 0, errors |-> <<>>],
   gamesResult |-> [count |-> 0, errors |-> <<>>],
   fan |-> [i |-> 0, results |-> <<>>],
   boxscoreStats |-> [fetched |-> 0, players |-> 0, errors |-> <<>>],
   allPlayerRows |-> <<>>,
   response |-> NoResponse,
   issued |-> <<>>, inflight |-> {}, sent |-> <<>>, gameFetches |-> 0,
   reordered |-> FALSE,
   calls |-> <<>>, answers |-> <<>>, enteredAt |-> 0 - 1,
   failed |-> {}, storeFails |-> {}, faulty |-> FALSE, rejected |-> FALSE]

\* variant of IsEligible that uses the test of the result's eligible count
IsEligibleAsCounted(g) ==
  g.played \/ g.gameStatus = "Live" \/ g.gameStatus = "Playing"

\* gamesList.filter(g => g.played === true || g.gameStatus === "Played" || ...)
IsEligible(g) ==
  g.played = TRUE \/ g.gameStatus = "Played" \/ g.gameStatus = "Live"
    \/ g.gameStatus = "Playing"

eligibleGames(gamesList) == SelectSeq(gamesList, IsEligible)

\* the eligible count of the result object:
\* gamesList.filter(g => g.played || g.gameStatus === "Live" || g.gameStatus === "Playing")
CountsAsEligible(g) ==
  g.played \/ g.gameStatus = "Live" \/ g.gameStatus = "Playing"

\* gamesList.map(g => transformGame(g, seasonCode, code.toUpperCase()))
gameRows(gamesList) ==
  [k \in DOMAIN gamesList |->
     transformGame(gamesList[k], getSeasonCode(params), Competition(params), run)]

\* errors.slice(0, 5) in the stats variant, the whole list in sync.js
ReportedErrors(v, errors) ==
  IF v = "stats" THEN Slice(errors, 0, errorCap) ELSE errors

\* the 200 body
Result(s) ==
  [status |-> 200, success |-> TRUE, error |-> "",
   found |-> Len(s.gamesList),
   upserted |-> s.gamesResult.count,
   gameErrors |-> ReportedErrors(variant, s.gamesResult.errors),
   boxscores |->
     IF variant = "gamesOnly" THEN NoBoxscores
     ELSE IF ~doBoxscores(params) THEN [NoBoxscores EXCEPT !.present = TRUE, !.skipped = TRUE]
     ELSE [present |-> TRUE, skipped |-> FALSE,
           eligible |-> Len(SelectSeq(s.gamesList, CountsAsEligible)),
           fetched |-> s.boxscoreStats.fetched,
           playersUpserted |-> s.boxscoreStats.players,
           errors |-> ReportedErrors(variant, s.boxscoreStats.errors)]]

\* variant of Respond that turns any recorded error into a failure of the run
RespondStrict(s) ==
  IF s.gamesResult.errors /= <<>> \/ s.boxscoreStats.errors /= <<>>
  THEN [s EXCEPT !.pc = "done", !.response = errorResponse("Sync failed", 500)]
  ELSE [s EXCEPT !.pc = "done", !.response = Result(s)]

Respond(s) == [s EXCEPT !.pc = "done", !.response = Result(s)]

\* catch (err) { return errorResponse(`Sync failed: ${err.message}`, 500) }
Fail(s, message) ==
  [s EXCEPT !.pc = "done", !.response = errorResponse(message, 500)]

\* the rows the running supabaseUpsert call was given
UpRows(s) ==
  IF s.up.table = "live_games" THEN gameRows(s.gamesList) ELSE s.allPlayerRows

\* variant of StoreBatch whose slice runs one row into the next batch
StoreBatchOverlapping(rows, i) == Slice(rows, i, i + batchSize + 1)

\* rows.slice(i, i + batchSize)
StoreBatch(rows, i) == Slice(rows, i, i + batchSize)

\* the POST of the batch that starts at row i
SendBatch(s, table, rows, i, total, errors) ==
  [s EXCEPT !.pc = "store",
            !.up = [table |-> table, i |-> i, total |-> total, errors |-> errors],
            !.sent = Append(@, [table |-> table, from |-> i,
                                size |-> Len(StoreBatch(rows, i))])]

\* STEP 4 done: boxscoreStats.players = psResult.count, errors appended
AfterPlayersUpsert(s, res) ==
  Respond([s EXCEPT !.boxscoreStats =
             [@ EXCEPT !.players = res.count, !.errors = @ \o res.errors]])

\* variant of FanoutBatch whose window is one game too wide
FanoutBatchWide(eligible, i) == Slice(eligible, i, i + concurrency + 1)

\* eligibleGames.slice(i, i + concurrency)
FanoutBatch(eligible, i) == Slice(eligible, i, i + concurrency)

\* variant of FanoutFrom that upserts the player rows as soon as there are some
FanoutFromEager(s, i) ==
  LET eligible == eligibleGames(s.gamesList)
      batch    == FanoutBatch(eligible, i)
  IN IF Len(s.allPlayerRows) > 0
     THEN SendBatch(s, "player_stats", s.allPlayerRows, 0, 0, <<>>)
     ELSE IF i < Len(eligible)
     THEN [s EXCEPT !.pc = "fanout",
                    !.fan = [i |-> i, results |-> [k \in DOMAIN batch |-> "pending"]],
                    !.issued = @ \o [k \in DOMAIN batch |-> batch[k].gameCode],
                    !.inflight = @ \cup { batch[k].gameCode : k \in DOMAIN batch }]
     ELSE Respond(s)

\* The fan-out loop at index i: issue the requests of the next batch, all
\* in the same turn (batch.map calls every async function up to its first
\* await), or leave the loop for STEP 4.
FanoutFrom(s, i) ==
  LET eligible == eligibleGames(s.gamesList)
      batch    == FanoutBatch(eligible, i)
  IN IF i < Len(eligible)
     THEN [s EXCEPT !.pc = "fanout",
                    !.fan = [i |-> i, results |-> [k \in DOMAIN batch |-> "pending"]],
                    !.issued = @ \o [k \in DOMAIN batch |-> batch[k].gameCode],
                    !.inflight = @ \cup { batch[k].gameCode : k \in DOMAIN batch }]
     ELSE IF Len(s.allPlayerRows) > 0
     THEN SendBatch(s, "player_stats", s.allPlayerRows, 0, 0, <<>>)
     ELSE Respond(s)

\* STEP 2 done
AfterGamesUpsert(s, res) ==
  LET s1 == [s EXCEPT !.gamesResult = res]
  IN IF variant /= "gamesOnly" /\ doBoxscores(params) THEN FanoutFrom(s1, 0)
     ELSE Respond(s1)

\* supabaseUpsert returned
UpsertDone(s, res) ==
  IF s.up.table = "live_games" THEN AfterGamesUpsert(s, res)
  ELSE AfterPlayersUpsert(s, res)

\* the optional games filter of step 1
ApplyFilter(gamesFilter, list) ==
  IF Truthy(gamesFilter)
  THEN SelectSeq(list, LAMBDA g : SetHas(FilterSet(gamesFilter), g.gameCode))
  ELSE list

\* variant of OnGamesReply without the Array.isArray check
OnGamesReplyUnchecked(s, reply) ==
  IF reply.kind = "fail" THEN Fail(s, "Sync failed: EuroLeague API returned 500")
  ELSE LET s1   == [s EXCEPT !.gamesList = ApplyFilter(params.games, reply.list)]
           rows == gameRows(s1.gamesList)
       IN IF Len(rows) = 0
          THEN AfterGamesUpsert(s1, [count |-> 0, errors |-> <<>>])
          ELSE SendBatch(s1, "live_games", rows, 0, 0, <<>>)

\* STEP 1 answered: shape check, filter, then STEP 2
OnGamesReply(s, reply) ==
  CASE reply.kind = "fail" ->
         Fail(s, "Sync failed: EuroLeague API returned 500")
    [] reply.kind = "null" ->
         Fail(s, "Sync failed: Cannot read properties of null")
    [] reply.kind = "object" ->
         [s EXCEPT !.pc = "done",
                   !.response = errorResponse("Unexpected API response format", 500)]
    [] OTHER ->
         LET s1   == [s EXCEPT !.gamesList = ApplyFilter(params.games, reply.list)]
             rows == gameRows(s1.gamesList)
         IN IF Len(rows) = 0
            THEN AfterGamesUpsert(s1, [count |-> 0, errors |-> <<>>])
            ELSE SendBatch(s1, "live_games", rows, 0, 0, <<>>)

\* variant of OnStoreReply that leaves the loop at the first failed batch
OnStoreReplyBreak(s, status) ==
  LET rows   == UpRows(s)
      batch  == StoreBatch(rows, s.up.i)
      total  == IF status = 0 THEN s.up.total + Len(batch) ELSE s.up.total
      errors == IF status = 0 THEN s.up.errors
                ELSE Append(s.up.errors, BatchError(variant, s.up.table, s.up.i, status))
      next   == s.up.i + batchSize
  IN IF next < Len(rows) /\ status = 0
     THEN SendBatch(s, s.up.table, rows, next, total, errors)
     ELSE UpsertDone([s EXCEPT !.up.total = total, !.up.errors = errors],
                     [count |-> total, errors |-> errors])

\* The store answered the batch in flight with res.ok (status 0) or with a
\* failure status: count or record it, then the next batch or the return.
OnStoreReply(s, status) ==
  LET rows   == UpRows(s)
      batch  == StoreBatch(rows, s.up.i)
      total  == IF status = 0 THEN s.up.total + Len(batch) ELSE s.up.total
      errors == IF status = 0 THEN s.up.errors
                ELSE Append(s.up.errors, BatchError(variant, s.up.table, s.up.i, status))
      next   == s.up.i + batchSize
  IN IF next < Len(rows)
     THEN SendBatch(s, s.up.table, rows, next, total, errors)
     ELSE UpsertDone([s EXCEPT !.up.total = total, !.up.errors = errors],
                     [count |-> total, errors |-> errors])

\* variant of CollectResults that gives up the batch at its first failed fetch
RECURSIVE CollectResultsAbort(_, _, _, _)
CollectResultsAbort(s, batch, results, k) ==
  IF k > Len(batch) THEN s
  ELSE LET g == batch[k]
       IN IF results[k] = "fail"
          THEN [s EXCEPT !.boxscoreStats.errors = Append(@, GameError(g.gameCode))]
          ELSE CollectResultsAbort(
                 [s EXCEPT !.boxscoreStats.fetched = @ + 1,
                           !.allPlayerRows = @ \o extractPlayers(variant,
                               Boxscore(g.gameCode), g.gameCode,
                               getSeasonCode(params), Competition(params), run)],
                 batch, results, k + 1)

\* The loop over boxscoreResults after Promise.allSettled: results in batch
\* order, an error recorded, a boxscore counted and flattened.
RECURSIVE CollectResults(_, _, _, _)
CollectResults(s, batch, results, k) ==
  IF k > Len(batch) THEN s
  ELSE LET g == batch[k]
       IN IF results[k] = "fail"
          THEN CollectResults(
                 [s EXCEPT !.boxscoreStats.errors = Append(@, GameError(g.gameCode))],
                 batch, results, k + 1)
          ELSE CollectResults(
                 [s EXCEPT !.boxscoreStats.fetched = @ + 1,
                           !.allPlayerRows = @ \o extractPlayers(variant,
                               Boxscore(g.gameCode), g.gameCode,
                               getSeasonCode(params), Competition(params), run)],
                 batch, results, k + 1)

\* variant of AllSettled that waits for one result more than the batch has
AllSettledAndOneMore(results) ==
  \A k \in 1..(Len(results) + 1) : k \in DOMAIN results /\ results[k] /= "pending"

\* variant of AllSettled that resolves with the first settled request
AnySettled(results) == \E k \in DOMAIN results : results[k] /= "pending"

\* Promise.allSettled resolves once no request of the batch is pending
AllSettled(results) == \A k \in DOMAIN results : results[k] /= "pending"

(***************************************************************************)
(* The ephemeral cache (utils.js) and the rounds read handler.             *)
(***************************************************************************)
EmptyCache == [k \in {} |-> 0]

\* variant of cacheGet that leaves an expired entry in the map
cacheGetNoEvict(c, key, t) ==
  IF key \notin DOMAIN c \/ t > c[key].expires
  THEN [hit |-> FALSE, data |-> NoData, cache |-> c]
  ELSE [hit |-> TRUE, data |-> c[key].data, cache |-> c]

\* variant of cacheGet for which an entry has expired once now reaches expires
cacheGetExpiredAtExpiry(c, key, t) ==
  IF key \notin DOMAIN c THEN [hit |-> FALSE, data |-> NoData, cache |-> c]
  ELSE IF t >= c[key].expires
  THEN [hit |-> FALSE, data |-> NoData,
        cache |-> [k \in DOMAIN c \ {key} |-> c[k]]]
  ELSE [hit |-> TRUE, data |-> c[key].data, cache |-> c]

\* cache.get(key): the data of an entry that has not expired, else null
\* (hit = FALSE); an expired entry is deleted on the way
cacheGet(c, key, t) ==
  IF key \notin DOMAIN c THEN [hit |-> FALSE, data |-> NoData, cache |-> c]
  ELSE IF t > c[key].expires
  THEN [hit |-> FALSE, data |-> NoData,
        cache |-> [k \in DOMAIN c \ {key} |-> c[k]]]
  ELSE [hit |-> TRUE, data |-> c[key].data, cache |-> c]

\* variant of cacheSet that keeps the entry a key already has
cacheSetIfAbsent(c, key, data, ttlSeconds, t) ==
  [k \in DOMAIN c \cup {key} |->
     IF k \in DOMAIN c THEN c[k]
     ELSE [data |-> data, expires |-> t + ttlSeconds * 1000, storedAt |-> t]]

\* variant of cacheSet that never shortens the life of the entry a key has
cacheSetKeepLonger(c, key, data, ttlSeconds, t) ==
  [k \in DOMAIN c \cup {key} |->
     IF k = key
     THEN [data |-> data,
           expires |-> IF k \in DOMAIN c /\ c[k].expires > t + ttlSeconds * 1000
                       THEN c[k].expires ELSE t + ttlSeconds * 1000,
           storedAt |-> t]
     ELSE c[k]]

\* variant of cacheSet that keeps the expiry of the entry a key has
cacheSetKeepExpiry(c, key, data, ttlSeconds, t) ==
  [k \in DOMAIN c \cup {key} |->
     IF k = key
     THEN [data |-> data,
           expires |-> IF k \in DOMAIN c THEN c[k].expires
                       ELSE t + ttlSeconds * 1000,
           storedAt |-> t]
     ELSE c[k]]

\* variant of cacheSet that sweeps the expired entries out of the map
cacheSetSweeping(c, key, data, ttlSeconds, t) ==
  [k \in { j \in DOMAIN c : t <= c[j].expires } \cup {key} |->
     IF k = key THEN [data |-> data, expires |-> t + ttlSeconds * 1000, storedAt |-> t]
     ELSE c[k]]

\* cache.set(key, data, ttlSeconds)
cacheSet(c, key, data, ttlSeconds, t) ==
  [k \in DOMAIN c \cup {key} |->
     IF k = key THEN [data |-> data, expires |-> t + ttlSeconds * 1000, storedAt |-> t]
     ELSE c[k]]

\* cache.has(key): this.get(key) !== null
cacheHas(c, key, t) ==
  [has |-> cacheGet(c, key, t).hit, cache |-> cacheGet(c, key, t).cache]

\* cache.stats(): the size of the map and its keys
cacheStats(c) == [entries |-> Cardinality(DOMAIN c), keys |-> DOMAIN c]

\* no set has been made on the key
NeverSet == [at |-> 0 - 1, ttl |-> 0, data |-> NoData]

NoGet ==
  [key |-> <<>>, at |-> 0 - 1, hit |-> FALSE, data |-> NoData, lastSet |-> NeverSet,
   before |-> cacheStats(EmptyCache), after |-> cacheStats(EmptyCache)]

\* no direct set has been made
NoSet ==
  [key |-> <<>>, at |-> 0 - 1, ttl |-> 0, data |-> NoData,
   before |-> EmptyCache, after |-> EmptyCache]

\* no direct call of the cache has been made
NoCalls ==
  [calls |-> 0, sets |-> EmptyCache, get |-> NoGet, set |-> NoSet,
   last |-> [op |-> "", key |-> <<>>, at |-> 0 - 1, result |-> FALSE,
             stats |-> cacheStats(EmptyCache)]]

\* the last set made on the key
LastSet(p, key) == IF key \in DOMAIN p.sets THEN p.sets[key] ELSE NeverSet

\* round || "all"
RoundOrAll(p) == IF Truthy(p.round) THEN p.round ELSE <<"a", "l", "l">>

\* `rounds:${seasonCode}:${round || "all"}`
roundsCacheKey(p) == <<"rounds", getSeasonCode(p), RoundOrAll(p)>>

\* `/competitions/${code.toUpperCase()}/seasons/${seasonCode}/rounds${roundPath}`
roundsPath(p) ==
  <<"competitions", Competition(p), "seasons", getSeasonCode(p), "rounds",
    IF Truthy(p.round) THEN p.round ELSE <<>>>>

(***************************************************************************)
(* The read handlers.  The source holds up to three handlers per endpoint: *)
(*   "season"    the season parameter is the season segment (default 2024) *)
(*   "composite" buildSeasonCode(code, season) is (default season 2025)    *)
(*   "override"  getSeasonCode(params) is                                  *)
(* A handler runs from its entry to the cache hit or to the upstream       *)
(* fetch (readEntry), and on from the answer of the fetch (readSettle);    *)
(* the player handler may then fetch the season statistics (statsSettle).  *)
(* st.calls lists the upstream paths the handler has requested and         *)
(* st.answers tells of each whether upstream answered it (a 2xx).          *)
(***************************************************************************)
ReadEndpoints ==
  {"games", "game", "boxscore", "pbp", "standings", "rounds", "player"}

\* the handlers of an endpoint
HandlersOf(ep) ==
  CASE ep = "games" -> {"override"}
    [] ep = "game" -> {"season", "composite"}
    [] ep = "standings" -> {"season", "override"}
    [] OTHER -> {"season", "composite", "override"}

\* const { code = "E" } = params
CodeOf(p) == IF p.code = Absent THEN <<"E">> ELSE p.code

\* the season segment: season = "2024", buildSeasonCode(code, season) with
\* season = "2025", or getSeasonCode(params)
seasonSegment(v, p) ==
  CASE v = "season" ->
         IF p.season = Absent THEN <<"2", "0", "2", "4">> ELSE p.season
    [] v = "composite" ->
         buildSeasonCodeOfTwo(CodeOf(p),
                              IF p.season = Absent THEN <<"2", "0", "2", "5">>
                              ELSE p.season)
    [] OTHER -> getSeasonCode(p)

\* stats === "true" || stats === "1"
includeStats(p) == p.stats = <<"t", "r", "u", "e">> \/ p.stats = <<"1">>

\* includeStats && season, or includeStats && (season || params.seasonCode)
wantsStats(v, p) ==
  includeStats(p) /\ (Truthy(p.season) \/ (v = "override" /\ Truthy(p.seasonCode)))

\* the parameter a handler requires
RequiredParam(ep) ==
  CASE ep \in {"game", "boxscore", "pbp"} -> "gameNumber"
    [] ep = "player" -> "personCode"
    [] OTHER -> ""

\* cacheKey: the template literal, as the tuple of the parts it joins with ":"
readCacheKey(v, ep, p) ==
  CASE ep = "player" ->
         <<"player", CodeOf(p), p.personCode,
           IF Truthy(p.season) THEN p.season ELSE <<"n", "o", "n", "e">>,
           IF includeStats(p) THEN <<"t", "r", "u", "e">>
           ELSE <<"f", "a", "l", "s", "e">>>>
    [] ep = "rounds" /\ v = "override" -> roundsCacheKey(p)
    [] ep = "rounds" /\ v = "composite" -> <<ep, seasonSegment(v, p), RoundOrAll(p)>>
    [] ep = "rounds" -> <<ep, seasonSegment(v, p), CodeOf(p), RoundOrAll(p)>>
    [] ep \in {"games", "standings"} /\ v = "season" ->
         <<ep, seasonSegment(v, p), CodeOf(p)>>
    [] ep \in {"games", "standings"} -> <<ep, seasonSegment(v, p)>>
    [] v = "season" -> <<ep, seasonSegment(v, p), CodeOf(p), p.gameNumber>>
    [] OTHER -> <<ep, seasonSegment(v, p), p.gameNumber>>

\* the path handed to euroFetch, as the tuple of its segments
readPath(v, ep, p) ==
  LET season == <<"competitions", Competition(p), "seasons", seasonSegment(v, p)>>
  IN CASE ep = "player" -> <<"competitions", Competition(p), "persons", p.personCode>>
       [] ep = "rounds" /\ v = "override" -> roundsPath(p)
       [] ep = "rounds" ->
            season \o <<"rounds", IF Truthy(p.round) THEN p.round ELSE <<>>>>
       [] ep = "games" -> Append(season, "games")
       [] ep = "standings" -> Append(season, "standings")
       [] ep = "game" -> season \o <<"games", p.gameNumber>>
       [] ep = "boxscore" -> season \o <<"games", p.gameNumber, "boxscore">>
       [] OTHER -> season \o <<"games", p.gameNumber, "playbyplay">>

\* the path of the season statistics of the player handler
statsPath(v, p) ==
  <<"competitions", Competition(p), "seasons", seasonSegment(v, p),
    "people", p.personCode, "stats">>

\* variant of TtlOf in which every handler leaves the lifetime to cache.set
TtlOfDefault(ep) == CACHE_TTL_boxscore

\* CACHE_TTL of the handler's file
TtlOf(ep) ==
  IF ep \in {"game", "boxscore", "pbp"} THEN CACHE_TTL_boxscore ELSE CACHE_TTL

\* "Missing required param: <name>"
MissingParam(ep) ==
  IF ep = "player" THEN "Missing required param: personCode"
  ELSE "Missing required param: gameNumber"

\* `Failed to fetch <what>: ${err.message}`
FailedToFetch(ep) ==
  CASE ep = "games" -> "Failed to fetch games"
    [] ep = "game" -> "Failed to fetch game data"
    [] ep = "boxscore" -> "Failed to fetch boxscore"
    [] ep = "pbp" -> "Failed to fetch play-by-play"
    [] ep = "standings" -> "Failed to fetch standings"
    [] ep = "rounds" -> "Failed to fetch rounds"
    [] OTHER -> "Failed to fetch player data"

\* jsonResponse(data, 200, { "X-Cache": ... })
cacheResponse(data, xcache) ==
  [NoResponse EXCEPT !.status = 200, !.xcache = xcache, !.data = data]

\* a handler returns
Returns(s, response) == [s EXCEPT !.pc = "done", !.response = response]

\* variant of readEntry that serves whatever entry the key has
readEntryStale(s, v, ep, req, p, c, t) ==
  IF req = "OPTIONS" THEN [st |-> Returns(s, corsResponse), cache |-> c]
  ELSE IF RequiredParam(ep) /= "" /\ ~Truthy(p[RequiredParam(ep)])
  THEN [st |-> Returns(s, errorResponse(MissingParam(ep), 400)), cache |-> c]
  ELSE IF ep = "game" /\ v = "season" /\ Competition(p) \notin {<<"E">>, <<"U">>}
  THEN [st |-> Returns(s, errorResponse("Invalid code. Use E (EuroLeague) or U (EuroCup)", 400)),
        cache |-> c]
  ELSE IF readCacheKey(v, ep, p) \in DOMAIN c
  THEN [st |-> Returns([s EXCEPT !.enteredAt = t],
                       cacheResponse(c[readCacheKey(v, ep, p)].data, "HIT")),
        cache |-> c]
  ELSE [st |-> [s EXCEPT !.pc = "read", !.enteredAt = t,
                         !.calls = Append(@, readPath(v, ep, p))],
        cache |-> c]

\* variant of readEntry that does not check the required parameter
readEntryUnchecked(s, v, ep, req, p, c, t) ==
  IF req = "OPTIONS" THEN [st |-> Returns(s, corsResponse), cache |-> c]
  ELSE LET got == cacheGet(c, readCacheKey(v, ep, p), t)
       IN IF got.hit
          THEN [st |-> Returns([s EXCEPT !.enteredAt = t],
                               cacheResponse(got.data, "HIT")),
                cache |-> got.cache]
          ELSE [st |-> [s EXCEPT !.pc = "read", !.enteredAt = t,
                                 !.calls = Append(@, readPath(v, ep, p))],
                cache |-> got.cache]

\* variant of readEntry whose oldest game handler compares the code as given
readEntryCaseSensitive(s, v, ep, req, p, c, t) ==
  IF req = "OPTIONS" THEN [st |-> Returns(s, corsResponse), cache |-> c]
  ELSE IF RequiredParam(ep) /= "" /\ ~Truthy(p[RequiredParam(ep)])
  THEN [st |-> Returns(s, errorResponse(MissingParam(ep), 400)), cache |-> c]
  ELSE IF ep = "game" /\ v = "season" /\ CodeOf(p) \notin {<<"E">>, <<"U">>}
  THEN [st |-> Returns(s, errorResponse("Invalid code. Use E (EuroLeague) or U (EuroCup)", 400)),
        cache |-> c]
  ELSE LET got == cacheGet(c, readCacheKey(v, ep, p), t)
       IN IF got.hit
          THEN [st |-> Returns([s EXCEPT !.enteredAt = t],
                               cacheResponse(got.data, "HIT")),
                cache |-> got.cache]
          ELSE [st |-> [s EXCEPT !.pc = "read", !.enteredAt = t,
                                 !.calls = Append(@, readPath(v, ep, p))],
                cache |-> got.cache]

\* a read handler from its entry to its first await: the preflight, the
\* required parameter, the competition code (oldest game handler), the cache
readEntry(s, v, ep, req, p, c, t) ==
  IF req = "OPTIONS" THEN [st |-> Returns(s, corsResponse), cache |-> c]
  ELSE IF RequiredParam(ep) /= "" /\ ~Truthy(p[RequiredParam(ep)])
  THEN [st |-> Returns(s, errorResponse(MissingParam(ep), 400)), cache |-> c]
  ELSE IF ep = "game" /\ v = "season" /\ Competition(p) \notin {<<"E">>, <<"U">>}
  THEN [st |-> Returns(s, errorResponse("Invalid code. Use E (EuroLeague) or U (EuroCup)", 400)),
        cache |-> c]
  ELSE LET got == cacheGet(c, readCacheKey(v, ep, p), t)
       IN IF got.hit
          THEN [st |-> Returns([s EXCEPT !.enteredAt = t],
                               cacheResponse(got.data, "HIT")),
                cache |-> got.cache]
          ELSE [st |-> [s EXCEPT !.pc = "read", !.enteredAt = t,
                                 !.calls = Append(@, readPath(v, ep, p))],
                cache |-> got.cache]

\* the health handler: the preflight, else the description of the service
\* with cache.stats()
healthResponse(req, c) ==
  IF req = "OPTIONS" THEN corsResponse
  ELSE [NoResponse EXCEPT !.status = 200, !.timestamp = TRUE, !.cache = cacheStats(c)]

\* euroFetch resolves (res.ok) or throws
Answered(s, ok) == [s EXCEPT !.answers = Append(@, ok)]

\* the enriched payload is stored and returned
StoreAndReturn(s, v, ep, p, c, t, enriched) ==
  [st |-> Returns(s, cacheResponse(enriched, "MISS")),
   cache |-> cacheSet(c, readCacheKey(v, ep, p), enriched, TtlOf(ep), t)]

\* variant of readSettle that remembers a failure under the key
readSettleCachesFailure(s, v, ep, p, c, t, ok) ==
  LET a == Answered(s, ok)
  IN IF ~ok
     THEN [st |-> Returns(a, errorResponse(FailedToFetch(ep), 502)),
           cache |-> cacheSet(c, readCacheKey(v, ep, p), NoData, TtlOf(ep), t)]
     ELSE IF ep = "player" /\ wantsStats(v, p)
     THEN [st |-> [a EXCEPT !.pc = "stats", !.calls = Append(@, statsPath(v, p))],
           cache |-> c]
     ELSE StoreAndReturn(a, v, ep, p, c, t,
                         [NoData EXCEPT !.path = readPath(v, ep, p), !.cachedAt = t])

\* a read handler from the answer of euroFetch on: the catch on a failure,
\* else the fetch of the season statistics (player) or the enriched payload
readSettle(s, v, ep, p, c, t, ok) ==
  LET a == Answered(s, ok)
  IN IF ~ok
     THEN [st |-> Returns(a, errorResponse(FailedToFetch(ep), 502)), cache |-> c]
     ELSE IF ep = "player" /\ wantsStats(v, p)
     THEN [st |-> [a EXCEPT !.pc = "stats", !.calls = Append(@, statsPath(v, p))],
           cache |-> c]
     ELSE StoreAndReturn(a, v, ep, p, c, t,
                         [NoData EXCEPT !.path = readPath(v, ep, p), !.cachedAt = t])

\* variant of statsSettle in which the failure of the statistics fetch is
\* left to the handler's catch
statsSettleStrict(s, v, ep, p, c, t, ok) ==
  IF ok
  THEN StoreAndReturn(Answered(s, ok), v, ep, p, c, t,
                      [NoData EXCEPT !.path = readPath(v, ep, p), !.cachedAt = t,
                                     !.seasonStats = "data"])
  ELSE [st |-> Returns(Answered(s, ok), errorResponse(FailedToFetch(ep), 502)),
        cache |-> c]

\* the player handler from the answer of the statistics fetch on: a failure
\* leaves seasonStats null and a warning
statsSettle(s, v, ep, p, c, t, ok) ==
  StoreAndReturn(Answered(s, ok), v, ep, p, c, t,
                 [NoData EXCEPT !.path = readPath(v, ep, p), !.cachedAt = t,
                                !.seasonStats = IF ok THEN "data" ELSE "null",
                                !.warnings = ~ok])

(***************************************************************************)
(* Actions.                                                                *)
(***************************************************************************)
\* the store request in flight, as st.sent records it
InFlight(s) == s.sent[Len(s.sent)]

\* the game of the k-th request of the fan-out batch in flight
GameInFlight(s, k) == FanoutBatch(eligibleGames(s.gamesList), s.fan.i)[k]

\* The health handler runs; it has no await.
Health ==
  /\ endpoint = "health"
  /\ st.pc = "idle"
  /\ st' = Returns(st, healthResponse(method, cache))
  /\ UNCHANGED <<inputs, peer, probe, run, store, firstRun, cache, now>>

\* variant of SyncStart that does not read the credential before the fetch
SyncStartNoKeyCheck ==
  /\ endpoint = "sync"
  /\ st.pc = "idle"
  /\ st' = IF method = "OPTIONS"
           THEN [st EXCEPT !.pc = "done", !.response = corsResponse]
           ELSE [st EXCEPT !.pc = "games", !.gameFetches = @ + 1]
  /\ UNCHANGED <<inputs, peer, probe, run, store, firstRun, cache, now>>

\* variant of SyncStart that reads the credential before it handles the
\* preflight
SyncStartKeyFirst ==
  /\ endpoint = "sync"
  /\ st.pc = "idle"
  /\ st' = IF ~keyPresent
           THEN Fail(st, "Sync failed: SUPABASE_SERVICE_KEY env var not set")
           ELSE IF method = "OPTIONS"
           THEN [st EXCEPT !.pc = "done", !.response = corsResponse]
           ELSE [st EXCEPT !.pc = "games", !.gameFetches = @ + 1]
  /\ UNCHANGED <<inputs, peer, probe, run, store, firstRun, cache, now>>

\* The handler runs from its entry to its first await.
SyncStart ==
  /\ endpoint = "sync"
  /\ st.pc = "idle"
  /\ st' = IF method = "OPTIONS"
           THEN [st EXCEPT !.pc = "done", !.response = corsResponse]
           ELSE IF ~keyPresent
           THEN Fail(st, "Sync failed: SUPABASE_SERVICE_KEY env var not set")
           ELSE [st EXCEPT !.pc = "games", !.gameFetches = @ + 1]
  /\ UNCHANGED <<inputs, peer, probe, run, store, firstRun, cache, now>>

\* variant of GamesFetched that keeps the game list, as fetched, under the
\* key of the games endpoint
GamesFetchedCaching ==
  /\ st.pc = "games"
  /\ st' = OnGamesReply(st, upstream)
  /\ cache' = cacheSet(cache, readCacheKey("override", "games", params),
                       [NoData EXCEPT !.path = readPath("override", "games", params)],
                       TtlOf("games"), now)
  /\ UNCHANGED <<inputs, peer, probe, run, store, firstRun, now>>

\* The game-list fetch settles.
GamesFetched ==
  /\ st.pc = "games"
  /\ st' = OnGamesReply(st, upstream)
  /\ UNCHANGED <<inputs, peer, probe, run, store, firstRun, cache, now>>

\* The store answers the batch in flight: it applies it (or refuses it with
\* 409 when a key constraint is violated).
StoreAnswers ==
  /\ st.pc = "store"
  /\ LET table == st.up.table
         batch == StoreBatch(UpRows(st), st.up.i)
     IN IF StoreAccepts(table, store[table], batch, OnConflict(variant, table), pkIsKey)
        THEN /\ store' = [store EXCEPT ![table] = StoreMerge(table, @, batch)]
             /\ st' = OnStoreReply(st, 0)
        ELSE /\ store' = store
             /\ st' = OnStoreReply([st EXCEPT !.storeFails = @ \cup {InFlight(st)}], 409)
  /\ UNCHANGED <<inputs, peer, probe, run, firstRun, cache, now>>

\* The store answers the batch in flight with a server error.
StoreErrors ==
  /\ st.pc = "store"
  /\ st' = OnStoreReply([st EXCEPT !.faulty = TRUE,
                                    !.storeFails = @ \cup {InFlight(st)}], 500)
  /\ UNCHANGED <<inputs, peer, probe, run, store, firstRun, cache, now>>

\* The request to the store gets no answer: fetch rejects, which only the
\* handler's outer catch handles.
StoreRejects ==
  /\ st.pc = "store"
  /\ st' = Fail([st EXCEPT !.faulty = TRUE, !.rejected = TRUE],
                 "Sync failed: fetch failed")
  /\ UNCHANGED <<inputs, peer, probe, run, store, firstRun, cache, now>>

\* variant of BoxscoreSettles in which the request that settles pushes the
\* rows of its boxscore itself, at the moment it settles
BoxscoreSettlesCollecting ==
  /\ st.pc = "fanout"
  /\ \E k \in DOMAIN st.fan.results, r \in {"ok", "fail"} :
       /\ st.fan.results[k] = "pending"
       /\ st' = [st EXCEPT !.fan.results[k] = r,
                           !.inflight = @ \ {GameInFlight(st, k).gameCode},
                           !.failed = IF r = "fail"
                                      THEN @ \cup {GameInFlight(st, k).gameCode}
                                      ELSE @,
                           !.reordered = @ \/ \E j \in 1..(k - 1) :
                                                st.fan.results[j] = "pending",
                           !.allPlayerRows =
                              IF r = "ok"
                              THEN @ \o extractPlayers(variant,
                                     Boxscore(GameInFlight(st, k).gameCode),
                                     GameInFlight(st, k).gameCode,
                                     getSeasonCode(params), Competition(params), run)
                              ELSE @]
  /\ UNCHANGED <<inputs, peer, probe, run, store, firstRun, cache, now>>

\* One boxscore request of the batch in flight settles.
BoxscoreSettles ==
  /\ st.pc = "fanout"
  /\ \E k \in DOMAIN st.fan.results, r \in {"ok", "fail"} :
       /\ st.fan.results[k] = "pending"
       /\ st' = [st EXCEPT !.fan.results[k] = r,
                           !.inflight = @ \ {GameInFlight(st, k).gameCode},
                           !.failed = IF r = "fail"
                                      THEN @ \cup {GameInFlight(st, k).gameCode}
                                      ELSE @,
                           !.reordered = @ \/ \E j \in 1..(k - 1) :
                                                st.fan.results[j] = "pending"]
  /\ UNCHANGED <<inputs, peer, probe, run, store, firstRun, cache, now>>

\* Promise.allSettled resolves: collect the batch, go on with the loop.
FanoutJoin ==
  /\ st.pc = "fanout"
  /\ AllSettled(st.fan.results)
  /\ LET batch == FanoutBatch(eligibleGames(st.gamesList), st.fan.i)
     IN st' = FanoutFrom(CollectResults(st, batch, st.fan.results, 1),
                         st.fan.i + concurrency)
  /\ UNCHANGED <<inputs, peer, probe, run, store, firstRun, cache, now>>

\* A read handler runs to the cache hit or to the upstream fetch.
ReadStart ==
  /\ endpoint \in ReadEndpoints
  /\ st.pc = "idle"
  /\ LET r == readEntry(st, variant, endpoint, method, params, cache, now)
     IN st' = r.st /\ cache' = r.cache
  /\ UNCHANGED <<inputs, peer, probe, run, store, firstRun, now>>

\* The upstream fetch of a read handler settles, some time later.
ReadFetched ==
  /\ st.pc = "read"
  /\ \E dt \in {0, 1000}, ok \in BOOLEAN :
       /\ now' = now + dt
       /\ LET r == readSettle(st, variant, endpoint, params, cache, now', ok)
          IN st' = r.st /\ cache' = r.cache
  /\ UNCHANGED <<inputs, peer, probe, run, store, firstRun>>

\* The fetch of the season statistics of the player handler settles.
StatsFetched ==
  /\ st.pc = "stats"
  /\ \E dt \in {0, 1000}, ok \in BOOLEAN :
       /\ now' = now + dt
       /\ LET r == statsSettle(st, variant, endpoint, params, cache, now', ok)
          IN st' = r.st /\ cache' = r.cache
  /\ UNCHANGED <<inputs, peer, probe, run, store, firstRun>>

\* The same steps of a second request with the same parameters, which the
\* container takes up while the first is suspended or after it.
PeerStart ==
  /\ endpoint \in ReadEndpoints
  /\ peer.pc = "idle"
  /\ st.pc /= "idle"
  /\ LET r == readEntry(peer, variant, endpoint, method, params, cache, now)
     IN peer' = r.st /\ cache' = r.cache
  /\ UNCHANGED <<inputs, st, probe, run, store, firstRun, now>>

PeerFetched ==
  /\ peer.pc = "read"
  /\ \E dt \in {0, 1000}, ok \in BOOLEAN :
       /\ now' = now + dt
       /\ LET r == readSettle(peer, variant, endpoint, params, cache, now', ok)
          IN peer' = r.st /\ cache' = r.cache
  /\ UNCHANGED <<inputs, st, probe, run, store, firstRun>>

PeerStatsFetched ==
  /\ peer.pc = "stats"
  /\ \E dt \in {0, 1000}, ok \in BOOLEAN :
       /\ now' = now + dt
       /\ LET r == statsSettle(peer, variant, endpoint, params, cache, now', ok)
          IN peer' = r.st /\ cache' = r.cache
  /\ UNCHANGED <<inputs, st, probe, run, store, firstRun>>

\* the pauses between a request and its repeat: around both lifetimes
Delays ==
  { CACHE_TTL_boxscore * 1000 - 1, CACHE_TTL_boxscore * 1000,
    CACHE_TTL_boxscore * 1000 + 1,
    CACHE_TTL * 1000 - 1, CACHE_TTL * 1000, CACHE_TTL * 1000 + 1 }

\* The same read request is made again, some time after the first was answered.
Repeat ==
  /\ endpoint \in ReadEndpoints
  /\ st.pc = "done"
  /\ run = 1
  /\ run' = 2
  /\ firstRun' = [store |-> store, response |-> st.response, clean |-> TRUE]
  /\ st' = InitSt
  /\ \E d \in Delays : now' = now + d
  /\ UNCHANGED <<inputs, peer, probe, store, cache>>

\* The same request is made again once the first has been answered.
SecondRun ==
  /\ st.pc = "done"
  /\ run = 1
  /\ run' = 2
  /\ firstRun' = [store |-> store, response |-> st.response,
                  clean |-> ~st.faulty /\ st.failed = {}]
  /\ st' = InitSt
  /\ UNCHANGED <<inputs, peer, probe, store, cache, now>>

(***************************************************************************)
(* Inputs.                                                                 *)
(***************************************************************************)
Variants == {"boxscore", "stats", "gamesOnly"}

BaseParams ==
  [code |-> <<"e">>, season |-> Absent, seasonCode |-> Absent,
   games |-> Absent, skipBoxscores |-> Absent, round |-> Absent,
   gameNumber |-> Absent, personCode |-> Absent, stats |-> Absent]

NextGenParams ==
  [code |-> <<"j">>, season |-> <<"2", "0", "2", "5">>,
   seasonCode |-> <<"J", "T", "A", "2", "5">>,
   games |-> Absent, skipBoxscores |-> Absent, round |-> Absent,
   gameNumber |-> Absent, personCode |-> Absent, stats |-> Absent]

GamesFilters ==
  { <<>>, <<"1", ",", "3">>, <<" ", "2", " ", ",", " ", "9">>,
    <<"1", ",", "2", ",", "7">> }

SkipValues == { <<"t", "r", "u", "e">>, <<"1">>, <<"0">> }

ParamSets ==
  {BaseParams, NextGenParams}
    \cup { [BaseParams EXCEPT !.games = f] : f \in GamesFilters }
    \cup { [BaseParams EXCEPT !.skipBoxscores = k] : k \in SkipValues }
    \cup { [NextGenParams EXCEPT !.games = <<"1", ",", "3">>,
                                 !.skipBoxscores = <<"t", "r", "u", "e">>] }

EmptyStore == [live_games |-> {}, player_stats |-> {}]

NoFirstRun == [store |-> EmptyStore, response |-> NoResponse, clean |-> FALSE]

\* the parameters of the read requests
ReadParamSets ==
  {BaseParams, NextGenParams, [BaseParams EXCEPT !.round = <<"1", "5">>]}

\* the clock at the request: long enough after start-up for an entry to have expired
StartTime == 2 * CACHE_TTL * 1000

\* a cache that holds an entry under the key of the request p, stored at time t
WarmCache(p, t) ==
  cacheSet(EmptyCache, roundsCacheKey(p), [NoData EXCEPT !.path = roundsPath(p), !.cachedAt = t],
           CACHE_TTL, t)

InitSync ==
  /\ endpoint = "sync"
  /\ variant \in Variants
  /\ params \in ParamSets
  /\ upstream \in GamesReplies
  \* the container has served a rounds and a games request for the season
  /\ cache = cacheSet(WarmCache(params, StartTime),
                      readCacheKey("override", "games", params),
                      [NoData EXCEPT !.path = readPath("override", "games", params),
                                     !.cachedAt = StartTime],
                      TtlOf("games"), StartTime)

InitRead ==
  /\ endpoint = "rounds"
  /\ variant = "override"
  /\ params \in ReadParamSets
  /\ upstream = GamesReply("object", <<>>)
  /\ cache \in {EmptyCache, WarmCache(params, StartTime - 1000),
                WarmCache(params, StartTime - CACHE_TTL * 1000),
                WarmCache(params, StartTime - CACHE_TTL * 1000 - 1)}

InitHealth ==
  /\ endpoint = "health"
  /\ variant = "override"
  /\ params = BaseParams
  /\ upstream = GamesReply("object", <<>>)
  /\ cache \in {EmptyCache, WarmCache(params, StartTime),
                WarmCache(params, StartTime - CACHE_TTL * 1000 - 1)}

Init ==
  /\ InitSync \/ InitRead \/ InitHealth
  /\ method \in {"GET", "OPTIONS"}
  /\ keyPresent \in BOOLEAN
  \* one run against the empty store never meets a key that is already there
  /\ pkIsKey = FALSE
  /\ run = 1
  /\ now = StartTime
  /\ st = InitSt
  /\ peer = InitSt
  /\ store = EmptyStore
  /\ firstRun = NoFirstRun
  /\ probe = NoCalls

SyncNext ==
  \/ SyncStart
  \/ GamesFetched
  \/ StoreAnswers
  \/ StoreErrors
  \/ StoreRejects
  \/ BoxscoreSettles
  \/ FanoutJoin

Next ==
  \/ SyncNext
  \/ ReadStart
  \/ ReadFetched
  \/ Health

Spec == Init /\ [][Next]_vars

\* A sync invocation whose upstream and store calls all return or fail: the
\* handler goes on whenever the call it awaits has settled.
InitLive ==
  /\ Init
  /\ endpoint = "sync"
  /\ params \in {BaseParams, [BaseParams EXCEPT !.games = <<"1", ",", "3">>],
                 [BaseParams EXCEPT !.skipBoxscores = <<"1">>]}

\* the handler waits in Promise.allSettled and every request has settled
JoinReady == st.pc = "fanout" /\ AllSettled(st.fan.results)

\* Weak fairness of every step; that of FanoutJoin is written out with its
\* guard: it is not forever ready without being taken.
SpecLive ==
  /\ InitLive
  /\ [][SyncNext]_vars
  /\ WF_vars(SyncStart \/ GamesFetched \/ BoxscoreSettles)
  /\ WF_vars(StoreAnswers \/ StoreErrors \/ StoreRejects)
  /\ ([]<>(~JoinReady) \/ []<><<FanoutJoin>>_vars)

(***************************************************************************)
(* The same sync request made twice against an unchanged upstream.         *)
(***************************************************************************)
InitRerun ==
  /\ endpoint = "sync"
  /\ variant \in Variants
  /\ method = "GET"
  /\ keyPresent = TRUE
  /\ pkIsKey \in BOOLEAN
  /\ params \in {BaseParams, [BaseParams EXCEPT !.games = <<"1", ",", "3">>]}
  /\ upstream \in {GamesReply("array", ShortList), GamesReply("array", BigList)}
  /\ cache = EmptyCache
  /\ run = 1
  /\ now = StartTime
  /\ st = InitSt
  /\ peer = InitSt
  /\ store = EmptyStore
  /\ firstRun = NoFirstRun
  /\ probe = NoCalls

NextRerun ==
  \/ SyncNext
  \/ SecondRun

SpecRerun == InitRerun /\ [][NextRerun]_vars

(***************************************************************************)
(* A read request and its repeat.                                          *)
(***************************************************************************)
\* the competition and season parameters of the read requests
SeasonParams ==
  { BaseParams, NextGenParams,
    [BaseParams EXCEPT !.code = Absent, !.season = <<"2", "0", "2", "4">>],
    [BaseParams EXCEPT !.code = <<"U">>, !.seasonCode = <<>>],
    [NextGenParams EXCEPT !.season = Absent],
    [NextGenParams EXCEPT !.code = <<"e">>] }

\* the requests made to an endpoint
RequestsTo(ep) ==
  CASE ep \in {"game", "boxscore", "pbp"} ->
         { [p EXCEPT !.gameNumber = n] : p \in SeasonParams, n \in {Absent, <<"1">>} }
    [] ep = "rounds" ->
         { [p EXCEPT !.round = r] : p \in SeasonParams, r \in {Absent, <<"1", "5">>} }
    [] ep = "player" ->
         { [p EXCEPT !.stats = k] : p \in SeasonParams, k \in {Absent, <<"t", "r", "u", "e">>} }
           \cup { [p EXCEPT !.personCode = <<"P", "1">>, !.stats = k] :
                    p \in SeasonParams, k \in {Absent, <<"t", "r", "u", "e">>, <<"1">>} }
           \cup { [BaseParams EXCEPT !.code = <<"j">>, !.personCode = <<"P", "1">>,
                                     !.stats = <<"t", "r", "u", "e">>] }
    [] OTHER -> SeasonParams

\* earlier requests to the endpoint, and the cache after the handler v has
\* answered one from upstream at time t
EarlierRequests ==
  { [NextGenParams EXCEPT !.gameNumber = <<"1">>, !.personCode = <<"P", "1">>,
                          !.stats = <<"t", "r", "u", "e">>, !.season = y] :
      y \in {Absent, <<"2", "0", "2", "5">>} }

ServedCache(v, ep, p, t) ==
  cacheSet(EmptyCache, readCacheKey(v, ep, p),
           [NoData EXCEPT !.path = readPath(v, ep, p), !.cachedAt = t,
                          !.seasonStats = IF ep = "player" /\ wantsStats(v, p)
                                          THEN "data" ELSE "absent"],
           TtlOf(ep), t)

InitReads ==
  /\ endpoint \in ReadEndpoints
  /\ variant \in HandlersOf(endpoint)
  /\ params \in RequestsTo(endpoint)
  /\ method \in {"GET", "OPTIONS"}
  /\ keyPresent = TRUE
  /\ pkIsKey = FALSE
  /\ upstream = GamesReply("object", <<>>)
  /\ cache \in {EmptyCache, WarmCache(NextGenParams, StartTime)}
                  \cup { ServedCache(variant, endpoint, q, StartTime) :
                           q \in EarlierRequests }
  /\ run = 1
  /\ now = StartTime
  /\ st = InitSt
  /\ peer = InitSt
  /\ store = EmptyStore
  /\ firstRun = NoFirstRun
  /\ probe = NoCalls

NextRead ==
  \/ ReadStart
  \/ ReadFetched
  \/ StatsFetched
  \/ Repeat

SpecRead == InitReads /\ [][NextRead]_vars

\* requests to every endpoint: sync, health and the read handlers
SpecAll == (Init \/ InitReads) /\ [][Next \/ NextRead]_vars

(***************************************************************************)
(* Two requests with the same parameters served by one container: each     *)
(* handler runs alone from one await to the next, and the two interleave   *)
(* at the awaits.                                                          *)
(***************************************************************************)
InitRace ==
  /\ InitReads
  /\ method = "GET"

NextRace ==
  \/ ReadStart
  \/ ReadFetched
  \/ StatsFetched
  \/ PeerStart
  \/ PeerFetched
  \/ PeerStatsFetched

SpecRace == InitRace /\ [][NextRace]_vars

(***************************************************************************)
(* The cache on its own: set and get called directly, as the read handlers *)
(* call them, while the clock moves.  probe.sets remembers for each key    *)
(* the last set made on it, probe.get the last get: the key, the time, the *)
(* result, the last set on that key, and stats() before and after it;      *)
(* probe.set is the last set, with the map before and after it.            *)
(***************************************************************************)
\* the number of cache calls followed
MaxCalls == 3

CacheKeys == {roundsCacheKey(BaseParams), roundsCacheKey(NextGenParams)}

CacheValues ==
  { [NoData EXCEPT !.path = roundsPath(BaseParams), !.cachedAt = StartTime],
    [NoData EXCEPT !.path = roundsPath(NextGenParams), !.cachedAt = StartTime] }

\* ttlSeconds of the calls
Ttls == {1, 2}

\* the instants, in milliseconds after StartTime, at which calls are made:
\* around one and two seconds after a set
Instants == {0, 999, 1000, 1001, 2000, 2001}

\* cache.set(key, data, ttlSeconds)
CacheSet ==
  /\ endpoint = "none"
  /\ probe.calls < MaxCalls
  /\ \E key \in CacheKeys, data \in CacheValues, ttlSeconds \in Ttls :
       /\ cache' = cacheSet(cache, key, data, ttlSeconds, now)
       /\ probe' = [probe EXCEPT !.calls = @ + 1,
                      !.sets = [k \in DOMAIN @ \cup {key} |->
                                  IF k = key
                                  THEN [at |-> now, ttl |-> ttlSeconds, data |-> data]
                                  ELSE @[k]],
                      !.set = [key |-> key, at |-> now, ttl |-> ttlSeconds,
                               data |-> data, before |-> cache, after |-> cache'],
                      !.last = [NoCalls.last EXCEPT !.op = "set", !.key = key,
                                                    !.at = now]]
  /\ UNCHANGED <<inputs, peer, run, st, store, firstRun, now>>

\* cache.get(key), with cache.stats() read before and after it
CacheGet ==
  /\ endpoint = "none"
  /\ probe.calls < MaxCalls
  /\ \E key \in CacheKeys :
       LET got == cacheGet(cache, key, now)
       IN /\ cache' = got.cache
          /\ probe' = [probe EXCEPT !.calls = @ + 1,
                         !.get = [key |-> key, at |-> now, hit |-> got.hit,
                                  data |-> got.data, lastSet |-> LastSet(probe, key),
                                  before |-> cacheStats(cache),
                                  after |-> cacheStats(got.cache)],
                         !.last = [NoCalls.last EXCEPT !.op = "get", !.key = key,
                                                       !.at = now,
                                                       !.result = got.hit]]
  /\ UNCHANGED <<inputs, peer, run, st, store, firstRun, now>>

\* cache.has(key)
CacheHas ==
  /\ endpoint = "none"
  /\ probe.calls < MaxCalls
  /\ \E key \in CacheKeys :
       LET r == cacheHas(cache, key, now)
       IN /\ cache' = r.cache
          /\ probe' = [probe EXCEPT !.calls = @ + 1,
                         !.last = [NoCalls.last EXCEPT !.op = "has", !.key = key,
                                                       !.at = now,
                                                       !.result = r.has]]
  /\ UNCHANGED <<inputs, peer, run, st, store, firstRun, now>>

\* cache.stats()
CacheStats ==
  /\ endpoint = "none"
  /\ probe.calls < MaxCalls
  /\ probe' = [probe EXCEPT !.calls = @ + 1,
                 !.last = [NoCalls.last EXCEPT !.op = "stats", !.at = now,
                                               !.stats = cacheStats(cache)]]
  /\ UNCHANGED <<inputs, peer, run, st, store, firstRun, cache, now>>

\* time passes
Tick ==
  /\ endpoint = "none"
  /\ \E i \in Instants : StartTime + i > now /\ now' = StartTime + i
  /\ UNCHANGED <<inputs, peer, run, st, store, firstRun, cache, probe>>

InitCache ==
  /\ endpoint = "none"
  /\ variant = "stats"
  /\ method = "GET"
  /\ keyPresent = TRUE
  /\ pkIsKey = FALSE
  /\ params = BaseParams
  /\ upstream = GamesReply("fail", <<>>)
  /\ run = 1
  /\ now = StartTime
  /\ st = InitSt
  /\ peer = InitSt
  /\ store = EmptyStore
  /\ firstRun = NoFirstRun
  /\ cache \in {EmptyCache, WarmCache(BaseParams, StartTime - CACHE_TTL * 1000)}
  /\ probe = NoCalls

NextCache == CacheSet \/ CacheGet \/ Tick

SpecCache == InitCache /\ [][NextCache]_vars

\* every operation of the cache object
NextCacheAll == CacheSet \/ CacheGet \/ CacheHas \/ CacheStats \/ Tick

SpecCacheAll == InitCache /\ [][NextCacheAll]_vars

(***************************************************************************)
(* Properties.                                                             *)
(***************************************************************************)
SyncRun == endpoint = "sync" /\ method = "GET"

Done == st.pc = "done"

Answered200 == Done /\ st.response.status = 200

\* the run went through the boxscore stage and answered
BoxscoresRan ==
  SyncRun /\ Answered200 /\ st.response.boxscores.present
    /\ ~st.response.boxscores.skipped

Codes(list) == [k \in DOMAIN list |-> list[k].gameCode]

RECURSIVE SumSizes(_)
SumSizes(reqs) == IF reqs = <<>> THEN 0 ELSE Head(reqs).size + SumSizes(Tail(reqs))

\* the store requests sent for a table, and those of them that were refused
SentFor(table) == SelectSeq(st.sent, LAMBDA e : e.table = table)
FailsFor(table) == { e \in st.storeFails : e.table = table }

----------------------------------------------------------------------------
----------------------------------------------------------------------------
\* the eligible games whose boxscore fetch succeeded, in list order
OkGames == SelectSeq(eligibleGames(st.gamesList), LAMBDA g : g.gameCode \notin st.failed)

RowsOfGame(g) ==
  extractPlayers(variant, Boxscore(g.gameCode), g.gameCode,
                 getSeasonCode(params), Competition(params), run)

GameErrorsIn(errors) == SelectSeq(errors, LAMBDA e : e.kind = "game")

\* C2: when some boxscore fetches fail, the run still flattens the boxscore
\* of every other eligible game, counts it in fetched and upserts its rows,
\* and records exactly one "Game <id>" error per failed game and none for
\* the others; with one failed game the result shows exactly that one entry.
C2_FetchFailureIsolated ==
  BoxscoresRan =>
    /\ st.allPlayerRows = Flatten([k \in DOMAIN OkGames |-> RowsOfGame(OkGames[k])])
    /\ st.response.boxscores.fetched = Len(OkGames)
    /\ [k \in DOMAIN GameErrorsIn(st.boxscoreStats.errors) |->
          GameErrorsIn(st.boxscoreStats.errors)[k].n]
         = Codes(SelectSeq(eligibleGames(st.gamesList),
                           LAMBDA g : g.gameCode \in st.failed))
    /\ \A k \in DOMAIN st.boxscoreStats.errors :
         st.boxscoreStats.errors[k].kind = "game"
           => st.boxscoreStats.errors[k] = GameError(st.boxscoreStats.errors[k].n)
    /\ Cardinality(st.failed) = 1 =>
         /\ Len(GameErrorsIn(st.response.boxscores.errors)) = 1
         /\ GameErrorsIn(st.response.boxscores.errors)[1].n \in st.failed
    /\ FailsFor("player_stats") = {} =>
         /\ Range(st.allPlayerRows) \subseteq store.player_stats
         /\ st.response.boxscores.playersUpserted = Len(st.allPlayerRows)

C2_Witness ==
  /\ BoxscoresRan
  /\ Codes(st.gamesList) = <<1, 2, 7>>
  /\ st.failed = {7}
  /\ Len(RowsOfGame(st.gamesList[1])) > 0
  /\ Range(RowsOfGame(st.gamesList[1]) \o RowsOfGame(st.gamesList[2]))
       = store.player_stats

----------------------------------------------------------------------------
\* the first rows of the batches an upsert of n rows is cut into
BatchStarts(n) == { k * 50 : k \in 0..((n + 49) \div 50) - 1 }

\* the upsert stage of a table has been entered and left
StageOver(table) ==
  /\ SyncRun
  /\ SentFor(table) /= <<>>
  /\ ~(st.pc = "store" /\ st.up.table = table)

\* the result of the stage as the handler holds it
StageCount(table) ==
  IF table = "live_games" THEN st.gamesResult.count ELSE st.boxscoreStats.players

StageErrors(table) ==
  IF table = "live_games" THEN st.gamesResult.errors
  ELSE SelectSeq(st.boxscoreStats.errors, LAMBDA e : e.kind = "batch")

StageRows(table) ==
  IF table = "live_games" THEN Len(st.gamesList) ELSE Len(st.allPlayerRows)

----------------------------------------------------------------------------
\* C4: at every moment of a sync invocation at most 5 boxscore/stats
\* requests are in flight.
C4_AtMostFiveInFlight == Cardinality(st.inflight) <= 5

C4_Witness ==
  /\ SyncRun
  /\ Cardinality(st.inflight) = 5
  /\ Len(eligibleGames(st.gamesList)) > 5

----------------------------------------------------------------------------
\* C5: the requests in flight all belong to the fan-out batch issued last,
\* and the games requested so far are exactly the batches up to it: no
\* request of a batch is issued while one of the batch before is unsettled.
C5_BatchesSequential ==
  IF st.pc = "fanout"
  THEN /\ st.inflight
            \subseteq Range(Codes(Slice(eligibleGames(st.gamesList), st.fan.i, st.fan.i + 5)))
       /\ st.issued = Codes(Slice(eligibleGames(st.gamesList), 0, st.fan.i + 5))
  ELSE st.inflight = {}

C5_Witness ==
  /\ SyncRun
  /\ st.pc = "fanout"
  /\ st.fan.i = 5
  /\ st.inflight /= {}
  /\ st.failed /= {}
  /\ Len(st.issued) > 5

----------------------------------------------------------------------------
CountIn(seq, x) == Cardinality({ k \in DOMAIN seq : seq[k] = x })

\* eligibility as the claim words it
ClaimEligible(g) ==
  g.played = TRUE \/ g.gameStatus \in {"Played", "Live", "Playing"}

\* the fan-out loop has been left
FanoutOver ==
  /\ SyncRun
  /\ variant /= "gamesOnly"
  /\ doBoxscores(params)
  /\ Answered200 \/ SentFor("player_stats") /= <<>>

\* C6: a boxscore/stats fetch is only ever issued for a game of the filtered
\* list that is played or has status Played, Live or Playing, never twice
\* for the same game, and once the fan-out is over it has been issued for
\* every such game.
C6_FetchedExactlyTheEligible ==
  /\ \A c \in Range(st.issued) :
       /\ CountIn(st.issued, c) = 1
       /\ \E g \in Range(st.gamesList) : g.gameCode = c /\ ClaimEligible(g)
  /\ FanoutOver =>
       \A g \in Range(st.gamesList) :
         CountIn(st.issued, g.gameCode) = IF ClaimEligible(g) THEN 1 ELSE 0

C6_Witness ==
  /\ FanoutOver
  /\ Len(st.issued) > 5
  /\ \E g \in Range(st.gamesList) : ~ClaimEligible(g)
  /\ \E g \in Range(st.gamesList) : g.gameStatus = "Played" /\ ~g.played

----------------------------------------------------------------------------
NoDuplicates(table) ==
  Cardinality(store[table]) = Cardinality(Keys(table, store[table]))

\* both invocations ran to their answer and nothing failed around them
TwoCleanRuns ==
  /\ run = 2 /\ Done
  /\ firstRun.clean /\ firstRun.response.status = 200
  /\ ~st.faulty /\ st.failed = {}

\* C7: after the second of two sync runs with the same parameters against
\* an unchanged upstream, each table holds the same set of keys as after the
\* first run, no key twice, and every row is the one the second run wrote.
C7_RerunOverwrites ==
  TwoCleanRuns =>
    \A table \in {"live_games", "player_stats"} :
      /\ Keys(table, store[table]) = Keys(table, firstRun.store[table])
      /\ NoDuplicates(table)
      /\ \A r \in store[table] : r.synced_at = 2

\* the same, for the requests the store can merge: those that send
\* on_conflict, or any request when the conflict columns are the primary key
C7_RerunOverwritesWithOnConflict ==
  (variant = "stats" \/ pkIsKey) => C7_RerunOverwrites

C7_Witness ==
  /\ TwoCleanRuns
  /\ variant = "stats"
  /\ store.live_games /= {} /\ store.player_stats /= {}

----------------------------------------------------------------------------
\* C8: when the game-list response is neither a list nor an object with a
\* list under data, the run issues no store write and no boxscore fetch and
\* answers 500 with an error body and no success field.
C8_ShapeMismatchIsFatal ==
  (SyncRun /\ upstream.kind \in {"object", "null"}) =>
    /\ st.sent = <<>> /\ st.issued = <<>> /\ store = EmptyStore
    /\ st.pc \in {"idle", "games", "done"}
    /\ (Done /\ keyPresent) =>
         /\ st.response.status = 500
         /\ st.response.error /= ""
         /\ ~st.response.success
         /\ st.gameFetches = 1

C8_Witness ==
  /\ SyncRun /\ Done /\ keyPresent
  /\ upstream.kind = "object"
  /\ st.response.error = "Unexpected API response format"

----------------------------------------------------------------------------
\* C9: without the credential a sync run answers 500 with no success field
\* and has issued no upstream request and no store write; the read handler's
\* answer depends on the cache and the upstream only, with the credential
\* and without it.
C9_MissingCredential ==
  /\ (SyncRun /\ ~keyPresent) =>
       /\ st.gameFetches = 0 /\ st.issued = <<>> /\ st.sent = <<>>
       /\ store = EmptyStore
       /\ st.pc \in {"idle", "done"}
       /\ Done => /\ st.response.status = 500
                  /\ ~st.response.success
                  /\ st.response.error /= ""
  /\ (endpoint = "rounds" /\ method = "GET" /\ Done) =>
       /\ st.response.xcache \in {"HIT", "MISS"} => st.response.status = 200
       /\ st.response.xcache = "" =>
            st.response.status = 502 /\ st.answers = <<FALSE>>
       /\ st.answers /= <<FALSE>> => st.response.status = 200

C9_Witness ==
  /\ SyncRun /\ ~keyPresent /\ Done
  /\ st.response.status = 500
  /\ upstream.kind = "array"

----------------------------------------------------------------------------
\* the game numbers each games parameter of the model asks for
RequestedCodes(f) ==
  CASE f = <<"1", ",", "3">> -> {1, 3}
    [] f = <<" ", "2", " ", ",", " ", "9">> -> {2, 9}
    [] f = <<"1", ",", "2", ",", "7">> -> {1, 2, 7}

\* the fetched games with a requested number
Requested == SelectSeq(upstream.list, LAMBDA g : g.gameCode \in RequestedCodes(params.games))

\* C10: with a games parameter the games upserted and considered for
\* boxscores are exactly the fetched games whose gameCode is one of the
\* requested numbers; a requested number that matches no game leaves no
\* error entry and the run still answers 200.
C10_GamesFilter ==
  (SyncRun /\ keyPresent /\ Truthy(params.games)
     /\ upstream.kind \in {"array", "data"} /\ st.pc \notin {"idle", "games"}) =>
    /\ st.gamesList = Requested
    /\ Range(st.issued) \subseteq { g.gameCode : g \in Range(SelectSeq(Requested, ClaimEligible)) }
    /\ store.live_games \subseteq Range(gameRows(Requested))
    /\ SumSizes(SentFor("live_games")) <= Len(Requested)
    /\ (StageOver("live_games") /\ st.storeFails = {} /\ ~st.rejected) =>
         store.live_games = Range(gameRows(Requested))
    /\ Done => (st.rejected \/ st.response.status = 200)
    /\ Answered200 =>
         /\ st.response.found = Len(Requested)
         /\ FailsFor("live_games") = {} => st.response.gameErrors = <<>>
         /\ (st.failed = {} /\ FailsFor("player_stats") = {})
              => st.response.boxscores.errors = <<>>

C10_Witness ==
  /\ SyncRun /\ Answered200
  /\ params.games = <<"1", ",", "3">>
  /\ Codes(upstream.list) = <<1, 2, 3>>
  /\ { r.game_code : r \in store.live_games } = {1, 3}
  /\ Range(st.issued) = {1, 3}
  /\ st.response.gameErrors = <<>>

----------------------------------------------------------------------------
\* C11: each error list of the sync result (the game-upsert errors and the
\* boxscore-stage errors) is the first 5 entries recorded for its stage.
C11_ErrorListsCapped ==
  (SyncRun /\ Answered200) =>
    /\ st.response.gameErrors = Slice(st.gamesResult.errors, 0, 5)
    /\ st.response.boxscores.errors = Slice(st.boxscoreStats.errors, 0, 5)

\* the same, for the handler whose result slices the lists
C11_ErrorListsCappedWhenSliced == variant = "stats" => C11_ErrorListsCapped

C11_Witness ==
  /\ SyncRun /\ Answered200
  /\ variant = "stats"
  /\ Len(st.boxscoreStats.errors) > 5
  /\ Len(st.response.boxscores.errors) = 5

----------------------------------------------------------------------------
\* the player_stats rows the run has produced or stored
PlayerRows == Range(st.allPlayerRows) \cup store.player_stats

\* C12: every player_stats row comes from an entry that carries a person
\* code and is not a coach entry.
C12_RowsOnlyForPlayers ==
  SyncRun =>
    \A r \in PlayerRows : r.raw_data.code /= 0 /\ r.raw_data.type /= "C"

\* the same, for the handler whose extractPlayers tests the type tag
C12_RowsOnlyForPlayersWhenTagTested == variant = "stats" => C12_RowsOnlyForPlayers

C12_Witness ==
  /\ SyncRun /\ Answered200
  /\ variant = "stats"
  /\ store.player_stats /= {}
  /\ \E g \in Range(OkGames) :
       \E e \in Range(Boxscore(g.gameCode).local.players) : e.type = "C" /\ e.code /= 0

----------------------------------------------------------------------------
IsNumber(a, n) == a.t = "num" /\ a.n = n

\* C13: in every player_stats row field_goals_made is two_points_made +
\* three_points_made and field_goals_attempted is two_points_attempted +
\* three_points_attempted, also when the upstream entry lacks the split.
C13_FieldGoalsAreTheSum ==
  SyncRun =>
    \A r \in PlayerRows :
      /\ r.two_points_made.t = "num" /\ r.three_points_made.t = "num"
      /\ r.two_points_attempted.t = "num" /\ r.three_points_attempted.t = "num"
      /\ IsNumber(r.field_goals_made, r.two_points_made.n + r.three_points_made.n)
      /\ IsNumber(r.field_goals_attempted,
                  r.two_points_attempted.n + r.three_points_attempted.n)

\* the same, for the transform that defaults the split before adding
C13_FieldGoalsAreTheSumWhenDefaulted == variant = "stats" => C13_FieldGoalsAreTheSum

C13_Witness ==
  /\ SyncRun /\ variant = "stats"
  /\ \E r \in store.player_stats :
       r.raw_data.fieldGoalsMade2 = undefined /\ IsNumber(r.field_goals_made, 0)
  /\ \E r \in store.player_stats : IsNumber(r.field_goals_made, 5)

----------------------------------------------------------------------------
\* text of the form M..M:SS, digits only around one colon
IsClock(a) ==
  /\ a.t = "str"
  /\ Len(a.s) >= 4
  /\ a.s[Len(a.s) - 2] = ":"
  /\ \A i \in DOMAIN a.s : i /= Len(a.s) - 2 => IsDigit(a.s[i])

ClockMinutes(a) == DigitsPrefix(SubSeq(a.s, 1, Len(a.s) - 3), 0)
ClockSeconds(a) == DigitsPrefix(SubSeq(a.s, Len(a.s) - 1, Len(a.s)), 0)

\* MM + SS/60, in time units
ClockValue(a) == ClockMinutes(a) * PerMinute + ClockSeconds(a) * 1000

\* the playing time of an entry as each transform reads it
UpstreamTime(v, e) ==
  IF v = "stats" THEN e.timePlayed ELSE JsOr(e.minutes, e.timePlayed)

\* C14: minutes_decimal is MM + SS/60 when the upstream playing time is the
\* text "MM:SS" and is the upstream number itself when the playing time is
\* given as decimal minutes.
C14_MinutesFromEitherShape ==
  SyncRun =>
    \A r \in PlayerRows :
      LET time == UpstreamTime(variant, r.raw_data)
      IN /\ IsClock(time) => IsNumber(r.minutes_decimal, ClockValue(time))
         /\ time.t = "num" => r.minutes_decimal = time

\* what each transform does achieve: sync.js converts the text, the stats
\* variant keeps the number
C14_OneShapePerVariant ==
  SyncRun =>
    \A r \in PlayerRows :
      LET time == UpstreamTime(variant, r.raw_data)
      IN /\ (variant /= "stats" /\ IsClock(time))
              => IsNumber(r.minutes_decimal, ClockValue(time))
         /\ (variant = "stats" /\ time.t = "num") => r.minutes_decimal = time

C14_Witness ==
  /\ SyncRun /\ variant = "boxscore"
  /\ \E r \in store.player_stats :
       /\ r.raw_data.minutes = JsStr(<<"2", "5", ":", "3", "0">>)
       /\ IsNumber(r.minutes_decimal, 25 * PerMinute + PerMinute \div 2)

----------------------------------------------------------------------------
ValueOr0(a) == IF a.t = "num" THEN a.n ELSE 0

\* C15: total_rebounds is the upstream total when one is supplied, and
\* otherwise offensive + defensive with a missing part counted as 0.
C15_TotalRebounds ==
  SyncRun =>
    \A r \in PlayerRows :
      LET e == r.raw_data
      IN IF e.totalRebounds.t = "num"
         THEN r.total_rebounds = e.totalRebounds
         ELSE IsNumber(r.total_rebounds,
                       ValueOr0(e.offensiveRebounds) + ValueOr0(e.defensiveRebounds))

C15_Witness ==
  /\ SyncRun
  /\ \E r \in store.player_stats :
       /\ r.raw_data.offensiveRebounds = JsNum(3)
       /\ r.raw_data.defensiveRebounds = JsNum(5)
       /\ r.raw_data.totalRebounds = undefined
       /\ IsNumber(r.total_rebounds, 8)
  /\ \E r \in store.player_stats :
       /\ r.raw_data.offensiveRebounds = JsNum(3)
       /\ r.raw_data.defensiveRebounds = JsNum(5)
       /\ IsNumber(r.raw_data.totalRebounds, 9)
       /\ IsNumber(r.total_rebounds, 9)
  /\ \E r \in store.player_stats :
       /\ r.raw_data.offensiveRebounds = undefined
       /\ IsNumber(r.total_rebounds, 5)

----------------------------------------------------------------------------
\* C16: in every player_stats row the display string is "MM:SS" with SS
\* between 0 and 59, and minutes_decimal is MM + SS/60.
C16_DisplayAgreesWithDecimal ==
  SyncRun =>
    \A r \in PlayerRows :
      /\ IsClock(r.minutes)
      /\ ClockSeconds(r.minutes) <= 59
      /\ IsNumber(r.minutes_decimal, ClockValue(r.minutes))

\* a stored row whose display string shows 60 seconds
C16_SixtySeconds ==
  /\ SyncRun /\ variant = "stats"
  /\ \E r \in store.player_stats :
       /\ r.minutes = JsStr(<<"2", "5", ":", "6", "0">>)
       /\ r.raw_data.timePlayed = JsNum(25 * PerMinute + 59700)

\* a stored row with a number on display and 0 as decimal minutes
C16_NumberShownZeroStored ==
  /\ SyncRun /\ variant = "boxscore"
  /\ \E r \in store.player_stats :
       /\ r.minutes = JsNum(25 * PerMinute + PerMinute \div 2)
       /\ IsNumber(r.minutes_decimal, 0)

----------------------------------------------------------------------------
SkipAsked ==
  params.skipBoxscores \in {<<"t", "r", "u", "e">>, <<"1">>}

\* C17: with skipBoxscores "true" or "1" the run issues no boxscore request
\* and no player_stats write, still fetches the games and upserts them, and
\* reports boxscores as skipped; with the parameter absent or any other
\* value the fan-out runs over the eligible games.
C17_SkipBoxscores ==
  (SyncRun /\ keyPresent /\ variant /= "gamesOnly") =>
    IF SkipAsked
    THEN /\ st.issued = <<>>
         /\ SentFor("player_stats") = <<>>
         /\ store.player_stats = {}
         /\ Answered200 =>
              /\ st.response.boxscores.present /\ st.response.boxscores.skipped
              /\ st.gameFetches = 1
              /\ SumSizes(SentFor("live_games")) = Len(st.gamesList)
              /\ st.storeFails = {} => store.live_games = Range(gameRows(st.gamesList))
    ELSE Answered200 =>
           /\ st.response.boxscores.present /\ ~st.response.boxscores.skipped
           /\ st.issued = Codes(SelectSeq(st.gamesList, ClaimEligible))

C17_Witness ==
  /\ SyncRun /\ Answered200
  /\ params.skipBoxscores = <<"1">>
  /\ st.response.boxscores.skipped
  /\ store.live_games /= {}
  /\ SelectSeq(st.gamesList, ClaimEligible) /= <<>>

----------------------------------------------------------------------------
\* a get has been made on a key that had been set before
GetAfterSet == probe.get.at >= 0 /\ probe.get.lastSet.at >= 0

\* the expiry of the entry the last get looked for
ExpiryOfGet == probe.get.lastSet.at + probe.get.lastSet.ttl * 1000

\* C18: a get made at the very time of the last set on its key, the ttl
\* being positive, returns the value of that set.
C18_GetAfterSetReturnsValue ==
  (GetAfterSet /\ probe.get.at = probe.get.lastSet.at /\ probe.get.lastSet.ttl > 0) =>
    probe.get.hit /\ probe.get.data = probe.get.lastSet.data

C18_Witness ==
  /\ GetAfterSet
  /\ probe.get.at = probe.get.lastSet.at
  /\ probe.get.hit
  /\ probe.get.key \in probe.get.before.keys
  /\ probe.calls = 3
  /\ \E k \in DOMAIN probe.sets : k /= probe.get.key

----------------------------------------------------------------------------
\* C19: a get made more than ttl seconds after the last set on its key
\* returns absent, and after it the key is not among stats().keys nor
\* counted in stats().entries.
C19_ExpiredEntryIsRemoved ==
  (GetAfterSet /\ probe.get.at > ExpiryOfGet) =>
    /\ ~probe.get.hit
    /\ probe.get.key \notin probe.get.after.keys
    /\ probe.get.after.keys = probe.get.before.keys \ {probe.get.key}
    /\ probe.get.after.entries = Cardinality(probe.get.before.keys \ {probe.get.key})

C19_Witness ==
  /\ GetAfterSet
  /\ probe.get.at > ExpiryOfGet
  /\ probe.get.key \in probe.get.before.keys
  /\ probe.get.before.entries = 2
  /\ probe.get.after.entries = 1

----------------------------------------------------------------------------
\* C20: a get returns the stored value only while now < expiry; at every
\* now >= expiry, now = expiry included, it returns absent and the entry is
\* gone.
C20_AsStated ==
  GetAfterSet =>
    IF probe.get.at < ExpiryOfGet
    THEN probe.get.hit /\ probe.get.data = probe.get.lastSet.data
    ELSE ~probe.get.hit /\ probe.get.key \notin probe.get.after.keys

\* C20: a get returns the stored value while now <= expiry, expiry being the
\* time of the set + ttlSeconds * 1000, and leaves the entry in place; at
\* every now > expiry it returns absent and the entry is gone.
C20_ExpiryIsInclusive ==
  GetAfterSet =>
    IF probe.get.at <= ExpiryOfGet
    THEN /\ probe.get.hit /\ probe.get.data = probe.get.lastSet.data
         /\ probe.get.after = probe.get.before
    ELSE ~probe.get.hit /\ probe.get.key \notin probe.get.after.keys

C20_Witness ==
  /\ GetAfterSet
  /\ probe.get.lastSet.ttl > 0
  /\ probe.get.at = ExpiryOfGet
  /\ probe.get.hit
  /\ probe.get.key \in probe.get.after.keys

(***************************************************************************)
(* C21: cache.set on a key that already holds an entry replaces it         *)
(* unconditionally: the entry then holds the new value and expires         *)
(* ttlSeconds * 1000 after this set, whatever life the prior entry had     *)
(* left, the entries of the other keys are as they were, and a get of the  *)
(* key made before the new expiry returns the new value.                   *)
(***************************************************************************)
C21_SetReplacesEntry ==
  LET s == probe.set
      g == probe.get
  IN (s.at >= 0 /\ s.key \in DOMAIN s.before) =>
       /\ s.after[s.key].data = s.data
       /\ s.after[s.key].expires = s.at + s.ttl * 1000
       /\ DOMAIN s.after = DOMAIN s.before
       /\ \A k \in DOMAIN s.before \ {s.key} : s.after[k] = s.before[k]
       /\ ( /\ g.key = s.key
            /\ g.lastSet = [at |-> s.at, ttl |-> s.ttl, data |-> s.data]
            /\ g.at >= s.at
            /\ g.at < s.at + s.ttl * 1000 )
           => (g.hit /\ g.data = s.data)

\* a set has replaced an entry that held another value and had longer to live,
\* beside the entry of another key, and a get has returned the new value
C21_Witness ==
  LET s == probe.set
      g == probe.get
  IN /\ s.at >= 0
     /\ s.key \in DOMAIN s.before
     /\ DOMAIN s.before /= {s.key}
     /\ s.before[s.key].data /= s.data
     /\ s.before[s.key].expires > s.at + s.ttl * 1000
     /\ g.key = s.key /\ g.at >= s.at /\ g.hit /\ g.data = s.data

(***************************************************************************)
(* Read requests.                                                          *)
(***************************************************************************)
\* the key of the request
RequestKey == readCacheKey(variant, endpoint, params)

\* the request s has got past the preflight and the validation
Admitted(s) == s.enteredAt >= 0

\* the step in which the handler of request s, then t, returns its response
ReturnsIn(s, t) == s.pc /= "done" /\ t.pc = "done"

\* the request s was answered from upstream
AnsweredMiss(s) ==
  s.pc = "done" /\ s.response.status = 200 /\ s.response.xcache = "MISS"

\* the entry that a request answered t from upstream has written
WroteOwnEntry(t, c, instant) ==
  /\ RequestKey \in DOMAIN c
  /\ c[RequestKey].data = t.response.data
  /\ c[RequestKey].data.cachedAt = instant
  /\ c[RequestKey].storedAt = instant
  /\ c[RequestKey].expires = instant + TtlOf(endpoint) * 1000

(***************************************************************************)
(* C22: two concurrent requests with the same parameters on a cold key     *)
(* both miss, both call upstream and both set: each one that upstream      *)
(* answers responds X-Cache: MISS, and the map only changes when one of    *)
(* them returns, to the whole entry (payload, storedAt, expiry) of that    *)
(* one, so that it ends with the entry of whichever set ran last.          *)
(***************************************************************************)
C22_BothMissLastSetWins ==
  /\ [](( /\ RequestKey \notin DOMAIN cache
          /\ st.pc \in {"read", "stats"}
          /\ peer.pc = "idle" )
        => ENABLED PeerStart)
  /\ []((st.pc = "done" /\ peer.pc = "done" /\ st.calls /= <<>> /\ peer.calls /= <<>>)
        => /\ st.response.status \in {200, 502}
           /\ peer.response.status \in {200, 502}
           /\ st.response.status = 200 => st.response.xcache = "MISS"
           /\ peer.response.status = 200 => peer.response.xcache = "MISS"
           /\ peer.calls[1] = st.calls[1])
  /\ [][ /\ (ReturnsIn(st, st') /\ AnsweredMiss(st')) => WroteOwnEntry(st', cache', now')
         /\ (ReturnsIn(peer, peer') /\ AnsweredMiss(peer'))
              => WroteOwnEntry(peer', cache', now')
         /\ cache' /= cache
              => \/ ReturnsIn(st, st') /\ AnsweredMiss(st')
                 \/ ReturnsIn(peer, peer') /\ AnsweredMiss(peer') ]_vars

\* both requests missed and fetched, the first was answered a second before
\* the other, and the map holds the entry of the later one
C22_Witness ==
  /\ AnsweredMiss(st) /\ AnsweredMiss(peer)
  /\ st.calls /= <<>> /\ peer.calls = st.calls
  /\ st.response.data.cachedAt < peer.response.data.cachedAt
  /\ peer.enteredAt < st.response.data.cachedAt
  /\ cache[RequestKey].data = peer.response.data

(***************************************************************************)
(* C23: on every read endpoint a request whose key holds an entry that has *)
(* not expired (the clock has not passed its expiry) is answered           *)
(* X-Cache: HIT with the stored payload as it is, cachedAt of the original *)
(* fetch included, without any upstream call and without touching the map; *)
(* when the key has no entry or an expired one the handler fetches from    *)
(* upstream, and once upstream has answered it stores the enriched payload *)
(* under the key and responds X-Cache: MISS.                               *)
(***************************************************************************)
C23_HitOrFetch ==
  [][ /\ (st.pc = "idle" /\ st'.pc /= "idle" /\ Admitted(st'))
           => IF RequestKey \in DOMAIN cache /\ now <= cache[RequestKey].expires
              THEN /\ st'.pc = "done"
                   /\ st'.response.status = 200
                   /\ st'.response.xcache = "HIT"
                   /\ st'.response.data = cache[RequestKey].data
                   /\ st'.calls = <<>>
                   /\ cache' = cache
              ELSE /\ st'.pc = "read"
                   /\ st'.calls = <<readPath(variant, endpoint, params)>>
                   /\ RequestKey \notin DOMAIN cache'
      /\ (st.pc \in {"read", "stats"} /\ st'.pc = "done" /\ st'.response.status = 200)
           => /\ st'.response.xcache = "MISS"
              /\ st'.response.data.path = readPath(variant, endpoint, params)
              /\ WroteOwnEntry(st', cache', now') ]_vars

\* the repeat of a request answered from upstream is answered from the cache,
\* later, with the payload and the cachedAt of the first answer
C23_Witness ==
  /\ run = 2
  /\ firstRun.response.xcache = "MISS"
  /\ st.pc = "done"
  /\ st.response.xcache = "HIT"
  /\ st.response.data = firstRun.response.data
  /\ st.response.data.cachedAt < st.enteredAt
  /\ st.calls = <<>>

(***************************************************************************)
(* C24: when the upstream call of a read endpoint fails, the handler makes *)
(* no further attempt, responds with one 502 whose body is                 *)
(* {error, timestamp} and writes nothing to the cache, so that the next    *)
(* request for the key calls upstream again.  As stated, of any upstream   *)
(* call that a read handler makes.                                         *)
(***************************************************************************)
C24_AsStated ==
  (st.pc = "done" /\ \E i \in DOMAIN st.answers : ~st.answers[i])
    => /\ st.response.status = 502
       /\ RequestKey \notin DOMAIN cache

(***************************************************************************)
(* C24, amended: when the fetch of the endpoint's resource (the first call *)
(* of the handler) fails, the handler makes no further call, responds with *)
(* one 502 whose body is {error, timestamp}, and leaves the cache as it    *)
(* was, without an entry for the key, so that the next request for the key *)
(* calls upstream again.  (The fetch of the season statistics, which the   *)
(* player handler makes after the profile, is not covered.)                *)
(***************************************************************************)
C24_FailedFetchIs502 ==
  /\ []((st.pc = "done" /\ st.answers /= <<>> /\ ~st.answers[1])
        => /\ st.response.status = 502
           /\ st.response.error = FailedToFetch(endpoint)
           /\ st.response.timestamp
           /\ st.response.xcache = "" /\ st.response.data = NoData
           /\ Len(st.calls) = 1 /\ Len(st.answers) = 1
           /\ RequestKey \notin DOMAIN cache)
  /\ []((run = 2 /\ firstRun.response.status = 502 /\ st.pc /= "idle")
        => /\ st.calls /= <<>>
           /\ st.calls[1] = readPath(variant, endpoint, params)
           /\ st.response.xcache /= "HIT")
  /\ [][(st.pc = "read" /\ st'.pc = "done" /\ st'.response.status = 502)
          => cache' = cache]_vars

\* a request was answered 502 beside the entry of another key, and its repeat
\* has called upstream again and been answered
C24_Witness ==
  /\ run = 2
  /\ firstRun.response.status = 502
  /\ AnsweredMiss(st)
  /\ st.answers = <<TRUE>>
  /\ Cardinality(DOMAIN cache) = 2

\* the request lacks the parameter its endpoint requires
LacksRequired ==
  \/ endpoint \in {"game", "boxscore", "pbp"} /\ params.gameNumber = Absent
  \/ endpoint = "player" /\ params.personCode = Absent

(***************************************************************************)
(* C25: a request (not a preflight) to the game, boxscore or pbp endpoint  *)
(* without gameNumber, or to the player endpoint without personCode, is    *)
(* answered 400 with an error that names the missing parameter, before any *)
(* cache lookup or upstream call: the handler requests nothing from        *)
(* upstream and the cache stays as it was.                                 *)
(***************************************************************************)
C25_MissingParamIs400 ==
  /\ []((method = "GET" /\ LacksRequired)
        => /\ st.pc \in {"idle", "done"}
           /\ st.calls = <<>> /\ ~Admitted(st)
           /\ st.pc = "done"
                => /\ st.response.status = 400
                   /\ st.response.timestamp
                   /\ st.response.xcache = ""
                   /\ st.response.error =
                        IF endpoint = "player" THEN "Missing required param: personCode"
                        ELSE "Missing required param: gameNumber")
  /\ [][(method = "GET" /\ LacksRequired) => cache' = cache]_vars

\* a request without its required parameter and its repeat were both answered
\* 400, beside an entry in the map
C25_Witness ==
  /\ method = "GET" /\ LacksRequired
  /\ run = 2
  /\ firstRun.response.status = 400
  /\ st.pc = "done" /\ st.response.status = 400
  /\ cache /= EmptyCache

\* the request is to one of the six endpoints that take a season, supplies a
\* non-empty seasonCode and has been answered from upstream
FetchedWithSeasonCode ==
  /\ endpoint \in {"games", "game", "boxscore", "pbp", "standings", "rounds"}
  /\ Truthy(params.seasonCode)
  /\ AnsweredMiss(st)

\* the season segment of the requested path, /competitions/<code>/seasons/<season>/...
SeasonOfPath(path) == path[4]

(***************************************************************************)
(* C26: on the games, game, boxscore, pbp, standings and rounds endpoints  *)
(* a request that supplies a non-empty seasonCode uses it verbatim as the  *)
(* season segment of the upstream path and as the season part of the cache *)
(* key, in place of the composite of code and season.                      *)
(***************************************************************************)
C26_SeasonCodeVerbatim ==
  FetchedWithSeasonCode
    => /\ SeasonOfPath(st.calls[1]) = params.seasonCode
       /\ \E k \in DOMAIN cache :
            /\ cache[k].data = st.response.data
            /\ k[1] = endpoint /\ k[2] = params.seasonCode

\* the same of the handlers that resolve the season with getSeasonCode
C26_SeasonCodeVerbatimWhenResolved ==
  variant = "override" => C26_SeasonCodeVerbatim

\* a boxscore request with a seasonCode that differs from the composite has
\* been answered by the handler that resolves the season with getSeasonCode
C26_Witness ==
  /\ FetchedWithSeasonCode
  /\ endpoint = "boxscore" /\ variant = "override"
  /\ params.seasonCode /= toUpperCase(CodeOf(params)) \o <<"2", "0", "2", "5">>
  /\ SeasonOfPath(st.calls[1]) = <<"J", "T", "A", "2", "5">>

\* the season code the resolver is to return for the request
ExpectedSeasonCode ==
  IF params.seasonCode /= Absent /\ params.seasonCode /= <<>>
  THEN params.seasonCode
  ELSE (CASE params.code = Absent -> <<"E">>
          [] params.code = <<"e">> -> <<"E">>
          [] params.code = <<"j">> -> <<"J">>
          [] OTHER -> params.code)
       \o (IF params.season = Absent THEN <<"2", "0", "2", "5">> ELSE params.season)

\* a handler that resolves the season with getSeasonCode has requested its path
ResolvedAndFetched ==
  /\ variant = "override"
  /\ endpoint \in {"games", "boxscore", "pbp", "standings", "rounds"}
  /\ st.calls /= <<>>

(***************************************************************************)
(* C27: the season-code resolver (getSeasonCode, and buildSeasonCode with  *)
(* its override argument) returns the override verbatim whenever it is     *)
(* present and non-empty, for any code and year, and uppercase(code)       *)
(* followed by the year otherwise: ("e", "2025", null) gives "E2025" and   *)
(* ("j", "2025", "JTA25") gives "JTA25".                                   *)
(***************************************************************************)
C27_ResolverPrefersOverride ==
  /\ ResolvedAndFetched => SeasonOfPath(st.calls[1]) = ExpectedSeasonCode
  /\ buildSeasonCode(<<"e">>, <<"2", "0", "2", "5">>, Absent)
       = <<"E", "2", "0", "2", "5">>
  /\ buildSeasonCode(<<"j">>, <<"2", "0", "2", "5">>, <<"J", "T", "A", "2", "5">>)
       = <<"J", "T", "A", "2", "5">>

\* the resolver was given a code, a year and an override that is not their
\* composite, and the games handler has requested the season of the override
C27_Witness ==
  /\ ResolvedAndFetched
  /\ endpoint = "games"
  /\ params.code = <<"j">> /\ params.season = <<"2", "0", "2", "5">>
  /\ params.seasonCode = <<"J", "T", "A", "2", "5">>
  /\ SeasonOfPath(st.calls[1]) = <<"J", "T", "A", "2", "5">>

\* the lifetime, in milliseconds, that entries of the endpoint are to have
ExpectedLifetime ==
  IF endpoint \in {"games", "standings", "rounds", "player"} THEN 300 * 1000
  ELSE 60 * 1000

\* the time between the storing of the first answer and the entry of the repeat
SinceStored == st.enteredAt - firstRun.response.data.cachedAt

\* the repeat of a request answered from upstream has got past the validation
RepeatAfterMiss ==
  /\ run = 2
  /\ firstRun.response.status = 200 /\ firstRun.response.xcache = "MISS"
  /\ Admitted(st)

(***************************************************************************)
(* C28: an entry written by the games, standings, rounds or player handler *)
(* expires 300 s after it was stored, one written by the game, boxscore or *)
(* pbp handler 60 s after; a repeat of the request made less than that     *)
(* after the storing is a HIT, and one made more than that after it is a   *)
(* MISS: upstream is called again.                                         *)
(***************************************************************************)
C28_Lifetimes ==
  /\ AnsweredMiss(st)
       => /\ cache[RequestKey].storedAt = st.response.data.cachedAt
          /\ cache[RequestKey].expires = cache[RequestKey].storedAt + ExpectedLifetime
  /\ (RepeatAfterMiss /\ SinceStored < ExpectedLifetime)
       => /\ st.pc = "done"
          /\ st.response.xcache = "HIT"
          /\ st.response.data = firstRun.response.data
          /\ st.calls = <<>>
  /\ (RepeatAfterMiss /\ SinceStored > ExpectedLifetime)
       => /\ st.calls /= <<>>
          /\ st.response.xcache /= "HIT"
          /\ st.response.status = 200 => st.response.xcache = "MISS"

\* a standings request repeated one millisecond before 300 s is a HIT
C28_Witness ==
  /\ RepeatAfterMiss
  /\ endpoint = "standings"
  /\ SinceStored = 300 * 1000 - 1
  /\ st.response.xcache = "HIT"

\* a boxscore request repeated one millisecond after 60 s is fetched again
C28_WitnessShort ==
  /\ RepeatAfterMiss
  /\ endpoint = "boxscore"
  /\ SinceStored = 60 * 1000 + 1
  /\ AnsweredMiss(st)

\* the store requests sent so far are those of live_games, then those of
\* player_stats
GamesThenPlayers ==
  \A i, j \in DOMAIN st.sent :
    (st.sent[i].table = "player_stats" /\ st.sent[j].table = "live_games") => j < i

\* every batch of the live_games upsert has been sent and answered
GamesUpsertComplete ==
  /\ ~(st.pc = "store" /\ st.up.table = "live_games")
  /\ SumSizes(SentFor("live_games")) = Len(st.gamesList)

(***************************************************************************)
(* C29: within one sync invocation the stages run strictly in order: the   *)
(* game-list fetch has completed before anything is sent to the store,     *)
(* every live_games upsert batch has completed before the first boxscore   *)
(* fetch is issued, and every boxscore fetch has been issued and has       *)
(* resolved before the first player_stats upsert batch is sent.            *)
(***************************************************************************)
C29_StagesInOrder ==
  SyncRun =>
    /\ st.pc \in {"idle", "games"}
         => (st.sent = <<>> /\ st.issued = <<>> /\ store = EmptyStore)
    /\ st.sent /= <<>> => (st.gameFetches = 1 /\ st.pc /= "games")
    /\ st.issued /= <<>> => GamesUpsertComplete
    /\ SentFor("player_stats") /= <<>>
         => /\ st.inflight = {}
            /\ st.pc /= "fanout"
            /\ st.issued = Codes(eligibleGames(st.gamesList))
    /\ GamesThenPlayers

\* a player_stats batch is in flight after the live_games upsert and two
\* fan-out batches, one of whose fetches failed
C29_Witness ==
  /\ SyncRun
  /\ st.pc = "store" /\ st.up.table = "player_stats"
  /\ SentFor("live_games") /= <<>>
  /\ Len(st.issued) > concurrency
  /\ st.failed /= {}

----------------------------------------------------------------------------
\* the per-game failures of the run, before the result caps the list
GameFailures == Len(GameErrorsIn(st.boxscoreStats.errors))

(***************************************************************************)
(* C30: in every sync result where boxscores were not skipped,             *)
(* boxscores.eligible equals the number of games for which a boxscore      *)
(* fetch was attempted, and equals boxscores.fetched plus the number of    *)
(* per-game "Game <id>" failures of that run.                              *)
(***************************************************************************)
C30_EligibleIsAttempted ==
  BoxscoresRan =>
    /\ st.response.boxscores.eligible = Len(st.issued)
    /\ st.response.boxscores.eligible
         = st.response.boxscores.fetched + GameFailures

\* the part of C30 the result does satisfy: every attempted fetch is counted
\* once, in fetched or as a per-game failure
C30_AttemptedIsFetchedPlusFailed ==
  BoxscoresRan => Len(st.issued) = st.response.boxscores.fetched + GameFailures

\* a result whose eligible count leaves out a game that was fetched
C30_Miscounted ==
  /\ BoxscoresRan
  /\ st.response.boxscores.eligible < Len(st.issued)
  /\ \E k \in DOMAIN st.gamesList :
       /\ ~st.gamesList[k].played /\ st.gamesList[k].gameStatus = "Played"
       /\ st.gamesList[k].gameCode \in Range(st.issued)

----------------------------------------------------------------------------
\* the supabaseUpsert call for a table has returned its result
UpsertReturned(table) ==
  StageOver(table) /\ ~(st.rejected /\ InFlight(st).table = table)

(***************************************************************************)
(* C31: an upsert of n rows sends them in consecutive batches of at most   *)
(* 50 rows in input order, every row in exactly one batch: the k-th        *)
(* request carries the rows from (k-1)*50 up to 50 further or the end, a   *)
(* returned upsert of n rows has sent ceil(n/50) requests that carry n     *)
(* rows together, and zero rows produce no request.                        *)
(***************************************************************************)
C31_ConsecutiveBatches ==
  \A table \in {"live_games", "player_stats"} :
    LET sent == SentFor(table)
        n    == StageRows(table)
    IN /\ \A k \in DOMAIN sent :
            /\ sent[k].from = (k - 1) * batchSize
            /\ sent[k].size = Min(batchSize, n - sent[k].from)
            /\ sent[k].size \in 1..batchSize
       /\ UpsertReturned(table) =>
            /\ Len(sent) = (n + batchSize - 1) \div batchSize
            /\ SumSizes(sent) = n
       /\ (SyncRun /\ Answered200 /\ n = 0) => sent = <<>>

\* an upsert of more than 50 rows returned after a full batch and a rest
C31_Witness ==
  /\ UpsertReturned("live_games")
  /\ Len(st.gamesList) > batchSize
  /\ Len(SentFor("live_games")) = 2
  /\ SentFor("live_games")[2].size = Len(st.gamesList) - batchSize

\* a run answered 200 without a row to upsert and without a store request
C31_WitnessNoRows ==
  /\ SyncRun /\ Answered200
  /\ st.gamesList = <<>>
  /\ st.sent = <<>>

----------------------------------------------------------------------------
\* the games of the fan-out batch in flight whose fetch succeeded, and those
\* whose fetch failed, in batch order
BatchInFlight == FanoutBatch(eligibleGames(st.gamesList), st.fan.i)
BatchOk == SelectSeq(BatchInFlight, LAMBDA g : g.gameCode \notin st.failed)
BatchFailed == SelectSeq(BatchInFlight, LAMBDA g : g.gameCode \in st.failed)

(***************************************************************************)
(* C32: for a fixed outcome of each per-game boxscore fetch the sync       *)
(* result is the same for every completion order inside a fan-out batch:   *)
(* the join of a batch adds the rows of its successful games in batch      *)
(* order, one to fetched for each, and one error per failed game in batch  *)
(* order, whatever order the requests settled in; the rows handed to the   *)
(* player_stats upsert and the result are determined by the outcomes.      *)
(***************************************************************************)
C32_CompletionOrderIrrelevant ==
  /\ [][(SyncRun /\ st.pc = "fanout" /\ AllSettled(st.fan.results) /\ st' /= st) =>
          /\ st'.allPlayerRows
               = st.allPlayerRows
                   \o Flatten([k \in DOMAIN BatchOk |-> RowsOfGame(BatchOk[k])])
          /\ st'.boxscoreStats.fetched = st.boxscoreStats.fetched + Len(BatchOk)
          /\ GameErrorsIn(st'.boxscoreStats.errors)
               = GameErrorsIn(st.boxscoreStats.errors)
                   \o [k \in DOMAIN BatchFailed |-> GameError(BatchFailed[k].gameCode)]]_vars
  /\ []((SyncRun /\ st.pc = "store" /\ st.up.table = "player_stats") =>
          UpRows(st) = Flatten([k \in DOMAIN OkGames |-> RowsOfGame(OkGames[k])]))
  /\ [](BoxscoresRan =>
          /\ st.response.boxscores.fetched = Len(OkGames)
          /\ GameErrorsIn(st.boxscoreStats.errors)
               = [k \in DOMAIN SelectSeq(eligibleGames(st.gamesList),
                                         LAMBDA g : g.gameCode \in st.failed) |->
                    GameError(SelectSeq(eligibleGames(st.gamesList),
                                        LAMBDA g : g.gameCode \in st.failed)[k].gameCode)])

\* a run answered after requests of a batch settled out of their batch order,
\* some of them failing, with player rows upserted
C32_Witness ==
  /\ BoxscoresRan
  /\ st.reordered
  /\ st.failed /= {}
  /\ Len(OkGames) > 1
  /\ st.response.boxscores.playersUpserted > 0

----------------------------------------------------------------------------
\* the step is a call of the cache object, recorded in probe.last
CallOf(ops) == probe'.calls = probe.calls + 1 /\ probe'.last.op \in ops

\* the entries of the map that have expired
Expired(c, t) == { k \in DOMAIN c : t > c[k].expires }

(***************************************************************************)
(* C33: an entry leaves the cache only through a get or has on its own key *)
(* at a time after its expiry: a set leaves every other key's entry as it  *)
(* is, stats() changes nothing and counts and lists every entry of the     *)
(* map, the expired ones included, and the passing of time removes         *)
(* nothing.                                                                *)
(***************************************************************************)
C33_LeavesOnlyByRead ==
  [][/\ \A k \in DOMAIN cache \ DOMAIN cache' :
          /\ CallOf({"get", "has"})
          /\ probe'.last.key = k
          /\ ~probe'.last.result
          /\ now > cache[k].expires
     /\ CallOf({"set"}) =>
          \A k \in DOMAIN cache \ {probe'.last.key} :
            k \in DOMAIN cache' /\ cache'[k] = cache[k]
     /\ CallOf({"get", "has"}) =>
          \A k \in DOMAIN cache \ {probe'.last.key} :
            k \in DOMAIN cache' /\ cache'[k] = cache[k]
     /\ CallOf({"stats"}) =>
          /\ cache' = cache
          /\ probe'.last.stats.keys = DOMAIN cache
          /\ probe'.last.stats.entries = Cardinality(DOMAIN cache)
          /\ Expired(cache, now) \subseteq probe'.last.stats.keys
     /\ probe'.calls = probe.calls => cache' = cache]_vars

\* stats() has just listed an entry that expired and was not read again,
\* beside a live entry of another key
C33_Witness ==
  /\ endpoint = "none"
  /\ probe.last.op = "stats" /\ probe.last.at = now
  /\ probe.last.stats.entries = 2
  /\ Expired(cache, now) /= {}
  /\ Expired(cache, now) \subseteq probe.last.stats.keys
  /\ Expired(cache, now) /= DOMAIN cache

\* has() has just removed the expired entry of its key
C33_WitnessHas ==
  /\ endpoint = "none"
  /\ probe.last.op = "has" /\ ~probe.last.result
  /\ probe.last.key \notin DOMAIN cache
  /\ probe.sets /= EmptyCache

----------------------------------------------------------------------------
\* the request was answered from the cache
AnsweredHit(s) ==
  endpoint \in ReadEndpoints /\ s.pc = "done" /\ s.response.xcache = "HIT"

\* the payload is what the handler fetches for the request
FetchedForRequest(data) ==
  /\ data.path = readPath(variant, endpoint, params)
  /\ endpoint = "player" =>
       ((data.seasonStats /= "absent") <=> wantsStats(variant, params))

(***************************************************************************)
(* C34: two requests to the same read endpoint that compute the same cache *)
(* key fetch the same upstream path, so the payload of a cache hit is one  *)
(* that was fetched from the upstream resource of the request it answers.  *)
(***************************************************************************)
C34_SameKeySamePath ==
  /\ (endpoint \in ReadEndpoints /\ st.calls /= <<>>) =>
       \A q \in RequestsTo(endpoint) :
         readCacheKey(variant, endpoint, q) = readCacheKey(variant, endpoint, params)
           => readPath(variant, endpoint, q) = st.calls[1]
  /\ AnsweredHit(st) => FetchedForRequest(st.response.data)

\* the handlers that put the competition code into the key, as given or
\* inside the season code they build from it, keep the payloads of different
\* resources apart
C34_SameKeySamePathWhenCodeInKey ==
  (variant /= "override" /\ AnsweredHit(st)) => FetchedForRequest(st.response.data)

\* a hit that answers a request for one competition with the payload fetched
\* for another
C34_ForeignPayload ==
  /\ AnsweredHit(st)
  /\ st.response.data.path /= readPath(variant, endpoint, params)
  /\ st.response.data.path[2] /= Competition(params)

\* a hit of a season-keyed handler
C34_SeasonKeyedHit ==
  /\ variant /= "override" /\ AnsweredHit(st) /\ run = 1
  /\ st.response.data.path = readPath(variant, endpoint, params)

----------------------------------------------------------------------------
\* the profile with seasonStats null and the warning
Degraded(data) ==
  /\ data.path = readPath(variant, "player", params)
  /\ data.seasonStats = "null"
  /\ data.warnings

(***************************************************************************)
(* C35: in the player endpoint a failure of the optional season-stats      *)
(* fetch does not fail the request: the response is 200 with the profile,  *)
(* seasonStats null and a warning, and this result is stored for 300 s, so *)
(* that the same request made again within that time is a hit with the     *)
(* same payload and no upstream call; a failure of the profile fetch       *)
(* yields 502 and stores nothing.                                          *)
(***************************************************************************)
C35_StatsFailureDegrades ==
  /\ [][(endpoint = "player" /\ st.pc = "stats" /\ st' /= st
           /\ st'.answers = <<TRUE, FALSE>>) =>
          /\ st'.pc = "done"
          /\ st'.response.status = 200
          /\ st'.response.xcache = "MISS"
          /\ Degraded(st'.response.data)
          /\ RequestKey \in DOMAIN cache'
          /\ cache'[RequestKey].data = st'.response.data
          /\ cache'[RequestKey].expires = now' + 300 * 1000]_vars
  /\ [][(endpoint = "player" /\ st.pc = "read" /\ st' /= st
           /\ st'.answers = <<FALSE>>) =>
          /\ st'.pc = "done"
          /\ st'.response.status = 502
          /\ st'.response.xcache = ""
          /\ cache' = cache]_vars
  /\ []((endpoint = "player" /\ RepeatAfterMiss
           /\ firstRun.response.data.seasonStats = "null"
           /\ SinceStored < 300 * 1000) =>
          /\ st.pc = "done"
          /\ st.response.status = 200
          /\ st.response.xcache = "HIT"
          /\ st.response.data = firstRun.response.data
          /\ Degraded(st.response.data)
          /\ st.calls = <<>>)

\* the repeat of a request whose season-stats fetch failed is a hit with the
\* degraded payload, almost 300 s later
C35_Witness ==
  /\ endpoint = "player" /\ RepeatAfterMiss
  /\ firstRun.response.data.seasonStats = "null"
  /\ SinceStored = 300 * 1000 - 1
  /\ st.response.xcache = "HIT"
  /\ st.response.data.warnings
  /\ st.calls = <<>>

\* the profile fetch failed: 502 and no entry under the key
C35_WitnessProfile ==
  /\ endpoint = "player" /\ st.pc = "done"
  /\ st.answers = <<FALSE>>
  /\ st.response.status = 502
  /\ RequestKey \notin DOMAIN cache

----------------------------------------------------------------------------
\* the entry of the games endpoint for the season of the request
GamesKey == readCacheKey("override", "games", params)

(***************************************************************************)
(* C36: the health and sync handlers never write to the cache and never    *)
(* serve a payload from it: no step of a health or sync request changes    *)
(* the cache, a sync run that gets past the credential check fetches the   *)
(* game list from upstream even when a live games entry for the season is  *)
(* cached, and its answer carries no cached payload; the health answer     *)
(* only reports cache.stats().                                             *)
(***************************************************************************)
C36_HealthAndSyncLeaveCache ==
  /\ [][(endpoint \in {"sync", "health"}) => (cache' = cache)]_vars
  /\ []((SyncRun /\ keyPresent /\ st.pc /= "idle") =>
          /\ st.gameFetches = 1
          /\ GamesKey \in DOMAIN cache /\ now <= cache[GamesKey].expires)
  /\ []((endpoint \in {"sync", "health"} /\ Done) =>
          /\ "xcache" \in DOMAIN st.response => st.response.xcache = ""
          /\ "data" \in DOMAIN st.response => st.response.data = NoData)
  /\ []((endpoint = "health" /\ method = "GET" /\ Done) =>
          /\ st.response.status = 200
          /\ st.response.cache = cacheStats(cache)
          /\ st.calls = <<>>)

\* a sync run answered 200 from upstream beside a live games entry
C36_Witness ==
  /\ SyncRun /\ Answered200
  /\ st.gameFetches = 1
  /\ st.response.found > 0
  /\ GamesKey \in DOMAIN cache /\ now <= cache[GamesKey].expires
  /\ cache[GamesKey].data.path = readPath("override", "games", params)

\* a health request answered with the statistics of a cache that holds an
\* expired entry
C36_WitnessHealth ==
  /\ endpoint = "health" /\ method = "GET" /\ Done
  /\ st.response.cache.entries = 1
  /\ Expired(cache, now) /= {}

----------------------------------------------------------------------------
(***************************************************************************)
(* C37: a request with method OPTIONS to any endpoint, sync included, is   *)
(* answered with an empty 204 before any parameter validation, credential  *)
(* check, cache access, upstream call or store write: the handler returns  *)
(* in its first step, whatever the parameters, the credential and the      *)
(* cache are, and nothing but the response changes.                        *)
(***************************************************************************)
C37_PreflightFirst ==
  /\ [](method = "OPTIONS" =>
          /\ st.pc \in {"idle", "done"}
          /\ Done => st.response = corsResponse
          /\ st.response.status \in {0, 204}
          /\ st.calls = <<>> /\ st.answers = <<>>
          /\ st.gameFetches = 0 /\ st.issued = <<>> /\ st.sent = <<>>
          /\ st.enteredAt = 0 - 1
          /\ store = EmptyStore)
  /\ [][(method = "OPTIONS") => (cache' = cache /\ store' = store)]_vars

\* a preflight to sync answered 204 although the credential is absent
C37_Witness ==
  /\ method = "OPTIONS" /\ endpoint = "sync" /\ Done
  /\ ~keyPresent
  /\ st.response.status = 204

\* a preflight to a read endpoint answered 204 although the required
\* parameter is absent and the cache holds an entry
C37_WitnessRead ==
  /\ method = "OPTIONS" /\ endpoint \in {"game", "boxscore", "pbp", "player"} /\ Done
  /\ ~Truthy(params[RequiredParam(endpoint)])
  /\ cache /= EmptyCache
  /\ st.response.status = 204

----------------------------------------------------------------------------
\* the batches an upsert of n rows needs
BatchesFor(n) == (n + batchSize - 1) \div batchSize

(***************************************************************************)
(* C38: provided every upstream and store call eventually returns or       *)
(* fails, every sync invocation eventually produces exactly one response,  *)
(* the 200 result or a fatal error (the 204 for a preflight), and it is    *)
(* not changed afterwards; on the way it sends no more store batches than  *)
(* its rows need and issues no more boxscore fetches than it has games.    *)
(***************************************************************************)
C38_SyncTerminates ==
  /\ <>Done
  /\ [](Done => st.response.status \in {200, 500, 204})
  /\ [](~Done => st.response = NoResponse)
  /\ [][Done => (st' = st /\ store' = store)]_vars
  /\ [](/\ Len(SentFor("live_games")) <= BatchesFor(Len(st.gamesList))
        /\ Len(SentFor("player_stats")) <= BatchesFor(Len(st.allPlayerRows))
        /\ Len(st.issued) <= Len(st.gamesList)
        /\ st.gameFetches <= 1)

\* a run that has answered 200 after two store batches and two fan-out
\* batches
C38_Witness ==
  /\ SyncRun /\ Answered200
  /\ Len(st.issued) > concurrency
  /\ Len(st.sent) >= 2
  /\ st.failed /= {}

----------------------------------------------------------------------------
\* a request (not a preflight) to the oldest single-game handler, and to the
\* newer one
OldestGame == endpoint = "game" /\ variant = "season" /\ method = "GET"

NewerGame == endpoint = "game" /\ variant = "composite" /\ method = "GET"

\* the competition code of the request, upper-cased, is neither E nor U
InvalidCode == Competition(params) \notin {<<"E">>, <<"U">>}

\* the competition segment of a requested path, /competitions/<code>/...
CompetitionOfPath(path) == path[2]

(***************************************************************************)
(* C39: the oldest single-game handler answers 400 when the competition    *)
(* code, upper-cased, is neither E nor U: it looks nothing up in the cache *)
(* and calls nothing upstream. A code that is E or U in either case is     *)
(* admitted. The newer game handler has no such check: a request with a    *)
(* gameNumber and any code is admitted, and what it fetches it fetches     *)
(* from /competitions/<CODE>/ with the code upper-cased.                   *)
(***************************************************************************)
C39_CodeValidatedOnlyByOldest ==
  /\ []((OldestGame /\ InvalidCode)
        => /\ st.pc \in {"idle", "done"}
           /\ st.calls = <<>> /\ ~Admitted(st)
           /\ st.pc = "done"
                => /\ st.response.status = 400
                   /\ st.response.xcache = ""
                   /\ st.response.error =
                        IF Truthy(params.gameNumber)
                        THEN "Invalid code. Use E (EuroLeague) or U (EuroCup)"
                        ELSE "Missing required param: gameNumber")
  /\ [][(OldestGame /\ InvalidCode) => cache' = cache]_vars
  /\ []((OldestGame /\ ~InvalidCode /\ Truthy(params.gameNumber) /\ st.pc /= "idle")
        => Admitted(st) /\ st.response.status /= 400)
  /\ []((NewerGame /\ Truthy(params.gameNumber) /\ st.pc /= "idle")
        => /\ Admitted(st)
           /\ st.response.status /= 400
           /\ st.calls = <<>> => AnsweredHit(st)
           /\ st.calls /= <<>>
                => CompetitionOfPath(st.calls[1]) = Competition(params))

\* the oldest handler has refused a request with the code j and a gameNumber
\* although the map holds an entry under the key of the request
C39_Witness ==
  /\ OldestGame /\ InvalidCode /\ Truthy(params.gameNumber)
  /\ st.pc = "done" /\ st.response.status = 400
  /\ readCacheKey(variant, endpoint, params) \in DOMAIN cache

\* the newer handler has answered a request with the code j from upstream
C39_WitnessNewer ==
  /\ NewerGame /\ InvalidCode
  /\ AnsweredMiss(st)
  /\ CompetitionOfPath(st.calls[1]) = <<"J">>

\* the oldest handler has answered a request with the code e from upstream
C39_WitnessLowerCase ==
  /\ OldestGame /\ params.code = <<"e">>
  /\ AnsweredMiss(st)

=============================================================================
